---- MODULE Spec2Model ----
(***************************************************************************)
(* A model of the tunnel transport layer of pomerium/cli: the JWT cache,   *)
(* the Tunnel orchestrator (runWithJWT), the per-protocol tunnelers         *)
(* (HTTP/1.1, HTTP/2, HTTP/3; TCP and UDP) and the fallback tunneler.       *)
(***************************************************************************)
EXTENDS Integers, Sequences, FiniteSets, TLC

(***************************************************************************)
(* Bounds of the model.                                                    *)
(***************************************************************************)
\* the clock and the "exp" claims of the sample tokens range over 0..MaxTime
MaxTime == 2
\* chunks (TCP) or packets (UDP) one attempt forwards in each direction
MaxForward == 2
\* successive calls made on one fallback tunneler
MaxCalls == 3
\* tunnelers a fallback tunneler wraps
MaxTunnelers == 3

(***************************************************************************)
(* Errors.  A Go error is modelled by the set of sentinel errors that      *)
(* errors.Is finds in its %w chain, and by its message.                    *)
(***************************************************************************)
NilErr == [is |-> {}, msg |-> "<nil>"]

NewError(sentinel) == [is |-> {sentinel}, msg |-> sentinel]

\* fmt.Errorf(msg) without %w
Errorf(msg) == [is |-> {}, msg |-> msg]

\* fmt.Errorf(msg + ": %w", e)
Wrapf(msg, e) == [is |-> e.is, msg |-> msg \o ": " \o e.msg]

\* errors.Is(e, sentinel)
ErrorsIs(e, sentinel) == sentinel \in e.is

errUnavailable == NewError("unavailable")
errUnauthenticated == NewError("unauthenticated")
errUnauthorized == NewError("unauthorized")
errUnsupported == NewError("unsupported")

ErrExpired == NewError("expired")
ErrInvalid == NewError("invalid")
ErrNotFound == NewError("not found")

\* errors of the operating system, the network and the context
errIO == Errorf("input/output error")
errNet == Errorf("connection refused")
errCanceled == NewError("context canceled")

(***************************************************************************)
(* HTTP status codes the proxy answers with.                               *)
(***************************************************************************)
StatusOK == 200
StatusMovedPermanently == 301
StatusFound == 302
StatusTemporaryRedirect == 307
StatusPermanentRedirect == 308
StatusForbidden == 403
StatusNotFound == 404
StatusServiceUnavailable == 503

StatusCodes ==
    { StatusOK, StatusMovedPermanently, StatusFound, StatusTemporaryRedirect,
      StatusPermanentRedirect, StatusForbidden, StatusNotFound,
      StatusServiceUnavailable }

Redirects ==
    { StatusMovedPermanently, StatusFound, StatusTemporaryRedirect,
      StatusPermanentRedirect }

(***************************************************************************)
(* JWTs and the JWT cache.                                                 *)
(***************************************************************************)
NoExp == -1
NoJWT == ""
FreshJWT == "jwt.fresh"

\* the tokens a cache may hold when a run starts
CachedJWTs == {"jwt.noexp", "jwt.early", "jwt.late", "jwt.garbage"}

\* jose.ParseSigned: whether the raw token is a well-formed signed object
ParseSigned(raw) == raw \in {"jwt.noexp", "jwt.early", "jwt.late", FreshJWT}

\* the "exp" claim of the payload, NoExp when there is none
Expiry(raw) ==
    CASE raw = "jwt.early" -> 0
      [] raw = "jwt.late" -> MaxTime
      [] raw = FreshJWT -> MaxTime
      [] OTHER -> NoExp

checkExpiry(raw, clock) ==
    IF ~ParseSigned(raw) THEN ErrInvalid
    ELSE IF Expiry(raw) # NoExp /\ Expiry(raw) < clock THEN ErrExpired
    ELSE NilErr

Hosts == {"proxy.a", "proxy.b"}

\* fmt.Sprintf("%s|%v", host, tlsConfig != nil)
CacheKeyForHost(host, tls) == host \o "|" \o (IF tls THEN "true" ELSE "false")

CacheKeys == { CacheKeyForHost(h, t) : h \in Hosts, t \in BOOLEAN }

Absent == "<absent>"

\* MemoryCache.LoadJWT / LocalCache.LoadJWT without an I/O failure
LoadJWT(entries, key, clock) ==
    IF entries[key] = Absent
    THEN [rawJWT |-> NoJWT, err |-> ErrNotFound]
    ELSE [rawJWT |-> entries[key], err |-> checkExpiry(entries[key], clock)]

\* LocalCache.LoadJWT when os.ReadFile fails for another reason
LoadJWTFailed == [rawJWT |-> NoJWT, err |-> errIO]

\* a plausible slip: the token is kept by the run only and never written
StoreJWTNowhere(entries, key, raw) == entries

StoreJWT(entries, key, raw) == [entries EXCEPT ![key] = raw]

DeleteJWT(entries, key) == [entries EXCEPT ![key] = Absent]

(***************************************************************************)
(* The tunnelers: http1tunneler, http2tunneler and http3tunneler, each     *)
(* with TunnelTCP and TunnelUDP.                                           *)
(***************************************************************************)
Protos == {"http1", "http2", "http3"}
Modes == {"tcp", "udp"}

ProtoName(proto) ==
    CASE proto = "http1" -> "http/1"
      [] proto = "http2" -> "http/2"
      [] OTHER -> "http/3"

\* fmt.Errorf with two %w verbs: "http/3: %w: failed to make connect request: %w"
http3RoundTripError(e) ==
    [is |-> errUnsupported.is \cup e.is,
     msg |-> "http/3: unsupported: failed to make connect request: " \o e.msg]

\* a plausible slip: the missing TLS configuration is reported as a plain error
PrereqErrorGeneric(proto, tlsEnabled) ==
    IF proto \in {"http2", "http3"} /\ ~tlsEnabled
    THEN Errorf(ProtoName(proto) \o ": TLS is required")
    ELSE NilErr

\* http2tunneler.getClientConn and http3tunneler.getTransport refuse to work
\* without a TLS configuration; http1tunneler dials in the clear
PrereqError(proto, tlsEnabled) ==
    CASE proto = "http2" /\ ~tlsEnabled ->
             [is |-> errUnsupported.is, msg |-> "unsupported: http2 requires TLS"]
      [] proto = "http3" /\ ~tlsEnabled ->
             [is |-> errUnsupported.is, msg |-> "http/3: unsupported: TLS is required"]
      [] OTHER -> NilErr

\* what establishing the connection to the proxy can end with
DialOutcomes(proto, mode) ==
    CASE proto = "http1" -> {"ok", "fail"}
      [] proto = "http2" -> {"ok", "fail", "alpn", "clientconn"}
      [] proto = "http3" /\ mode = "tcp" -> {"ok", "fail"}
      [] OTHER -> {"ok", "fail", "settings", "stream"}

\* a plausible slip: every tunneler reports a failed dial the way the HTTP/3
\* TCP tunneler reports a failed round trip
DialErrorAsUnsupported(proto, mode, outcome) ==
    IF outcome = "ok" THEN NilErr ELSE http3RoundTripError(errNet)

DialError(proto, mode, outcome) ==
    CASE outcome = "ok" -> NilErr
      [] proto = "http1" ->
             Wrapf("http/1: failed to establish connection to proxy", errNet)
      [] proto = "http2" /\ outcome = "fail" ->
             Wrapf("http/2: failed to establish connection to proxy", errNet)
      [] proto = "http2" /\ outcome = "alpn" ->
             [is |-> errUnsupported.is, msg |-> "unsupported: unexpected TLS protocol"]
      [] proto = "http2" ->
             Wrapf("http/2: failed to establish connection", errNet)
      [] proto = "http3" /\ mode = "tcp" -> http3RoundTripError(errNet)
      [] outcome = "fail" -> Wrapf("http/3: failed to connect to server", errNet)
      [] outcome = "settings" -> Errorf("http/3: extended connect not enabled")
      [] OTHER -> Wrapf("http/3: failed to create request stream", errNet)

\* writing the request to the proxy fails
SendError(proto, mode) ==
    CASE proto = "http1" -> errNet
      [] proto = "http2" /\ mode = "tcp" ->
             Wrapf("http/2: error making connect request", errNet)
      [] proto = "http2" ->
             Wrapf("http/2: error making connect udp request", errNet)
      [] proto = "http3" /\ mode = "tcp" -> http3RoundTripError(errNet)
      [] OTHER -> Wrapf("http/3: error sending request", errNet)

\* reading the response from the proxy fails
RecvError(proto, mode) ==
    CASE proto = "http1" -> Wrapf("http/1: failed to read HTTP response", errNet)
      [] proto = "http2" /\ mode = "tcp" ->
             Wrapf("http/2: error making connect request", errNet)
      [] proto = "http2" ->
             Wrapf("http/2: error making connect udp request", errNet)
      [] proto = "http3" /\ mode = "tcp" -> http3RoundTripError(errNet)
      [] OTHER -> Wrapf("http/3: error reading response", errNet)

InvalidStatusMessage(proto, mode) ==
    IF proto = "http3" /\ mode = "tcp"
    THEN "http/3: invalid response code: "
    ELSE ProtoName(proto) \o ": invalid http response code: "

\* a plausible slip: the tunnelers treat 403 the way httpStatusCodeToError does
StatusErrorForbidden(proto, mode, statusCode) ==
    CASE statusCode = StatusOK -> NilErr
      [] statusCode = StatusServiceUnavailable -> errUnavailable
      [] statusCode \in Redirects -> errUnauthenticated
      [] statusCode = StatusForbidden -> errUnauthorized
      [] OTHER -> Errorf(InvalidStatusMessage(proto, mode) \o ToString(statusCode))

\* the switch on res.StatusCode of every TunnelTCP and TunnelUDP
StatusError(proto, mode, statusCode) ==
    CASE statusCode = StatusOK -> NilErr
      [] statusCode = StatusServiceUnavailable -> errUnavailable
      [] statusCode \in Redirects -> errUnauthenticated
      [] OTHER -> Errorf(InvalidStatusMessage(proto, mode) \o ToString(statusCode))

\* the helper of tunnel.go; no tunneler of this source tree calls it
httpStatusCodeToError(statusCode) ==
    CASE statusCode = StatusOK -> NilErr
      [] statusCode = StatusServiceUnavailable -> errUnavailable
      [] statusCode \in Redirects -> errUnauthenticated
      [] statusCode = StatusForbidden -> errUnauthorized
      [] OTHER -> Errorf("invalid http response code: " \o ToString(statusCode))

\* a plausible slip: OnConnected is emitted as soon as a response has been read
EmitConnectedOnAnyStatus(events, e) == Append(events, "OnConnected")

\* eventSink.OnConnected(ctx) stands behind the switch on res.StatusCode, which
\* every status but 200 leaves by a return
EmitConnected(events, e) ==
    IF e = NilErr THEN Append(events, "OnConnected") ELSE events

\* the Authorization header of the request
AuthorizationHeader(raw) == IF raw # NoJWT THEN "Pomerium " \o raw ELSE "<none>"

\* a plausible slip: the copy loops are started as soon as the request is written
CopyLoopsRunningEarly(tunnelPC) == tunnelPC \in {"recv", "pump"}

\* the copy goroutines (TCP) and the errgroup loops (UDP) are started after the
\* switch on the status code and OnConnected, and stop when the tunneler returns
CopyLoopsRunning(tunnelPC) == tunnelPC = "pump"

\* the two io.Copy goroutines of TunnelTCP
CopyDirections == {"local->remote", "remote->local"}

\* what io.Copy returns: nil at EOF, or the error of the read or the write
CopyResults == {NilErr, errIO}

\* a plausible slip: TunnelTCP waits for both copy directions before it returns
PumpOutcomesWaitBoth(mode, done, errc) ==
    IF mode = "tcp"
    THEN IF Len(errc) = 2
         THEN {IF errc[2] = NilErr THEN "eof" ELSE "fail"}
         ELSE {}
    ELSE {"fail"} \cup (IF done THEN {"ctx"} ELSE {})

\* what the forwarding phase can end with.  TCP: the select takes the first
\* result on errc (nil at EOF) or the cancellation of the context, whichever is
\* ready.  UDP: the errgroup loops only return errors, and a cancelled context
\* ends them
PumpOutcomes(mode, done, errc) ==
    (IF mode = "tcp"
     THEN IF errc # <<>>
          THEN {IF Head(errc) = NilErr THEN "eof" ELSE "fail"}
          ELSE {}
     ELSE {"fail"})
        \cup (IF done THEN {"ctx"} ELSE {})

\* a plausible slip: a cancelled context ends the tunnel with a nil error
PumpErrorNilOnCancel(outcome) ==
    CASE outcome = "eof" -> NilErr
      [] outcome = "ctx" -> NilErr
      [] OTHER -> errIO

PumpError(outcome) ==
    CASE outcome = "eof" -> NilErr
      [] outcome = "ctx" -> errCanceled
      [] OTHER -> errIO

(***************************************************************************)
(* The orchestrator: Tunnel.runWithJWT and the handler it is given.        *)
(***************************************************************************)
\* a plausible slip: every error of the cache load is ignored
LoadIsNeverFatal(e) == FALSE

\* the switch after the cache load: nil and the predefined cache errors are
\* ignored, every other error aborts the run
LoadIsFatal(e) ==
    ~(e = NilErr \/ ErrorsIs(e, "expired") \/ ErrorsIs(e, "invalid")
        \/ ErrorsIs(e, "not found"))

\* a plausible slip: the login is repeated for as long as the proxy asks for it
NeedsLoginAlways(e, attempt) == ErrorsIs(e, "unauthenticated")

\* "if errors.Is(err, errUnauthenticated)": the block follows the first handler
\* call only; the call it makes is not followed by another test
NeedsLogin(e, attempt) == attempt = 1 /\ ErrorsIs(e, "unauthenticated")

\* a plausible slip: the token is deleted on every error
DeletesJWTOnAnyError(e) == e # NilErr

\* the final if / else if: unavailable and unauthorized keep the cached token,
\* every other error deletes it
DeletesJWT(e) ==
    ~(ErrorsIs(e, "unavailable") \/ ErrorsIs(e, "unauthorized")) /\ e # NilErr

\* what a handler given to runWithJWT can return
HandlerResults ==
    { NilErr, errUnavailable, errUnauthenticated, errUnauthorized, errIO,
      errCanceled, PrereqError("http2", FALSE) }

VARIABLES
    proxyHost,      \* cfg.proxyHost
    tlsEnabled,     \* cfg.tlsConfig != nil
    proto,          \* the tunneler the handler uses, "func" for any other handler
    mode,           \* "tcp" (Run) or "udp" (RunUDPSessionManager)
    cacheKind,      \* "local" (LocalCache) or "memory" (MemoryCache)
    now,            \* time.Now() of checkExpiry
    entries,        \* the content of the JWT cache, by key
    runPC,          \* where runWithJWT stands
    rawJWT,         \* the local rawJWT of runWithJWT
    err,            \* the local err of runWithJWT
    result,         \* what runWithJWT returned (when runPC = "done")
    returnedAt,     \* the return statement runWithJWT left by
    loadErr,        \* what LoadJWT returned as its error
    handlerTokens,  \* the token given to each handler invocation
    handlerErrs,    \* what each handler invocation returned
    loginCalls,     \* invocations of AuthClient.GetJWT
    storedJWTs,     \* the key and the token of each StoreJWT call, and its success
    deletedKeys,    \* the key of each DeleteJWT call
    entriesAtCall,  \* the cache content when the handler was last invoked
    ctxDone,        \* the context of the run has been cancelled
    tunnelPC,       \* where the tunneler stands in the current attempt
    dials,          \* connections to the proxy this attempt has tried to open
    authorization,  \* the Authorization header of the request sent
    statusCode,     \* res.StatusCode, 0 before a response has been read
    events,         \* the event sink calls of the current attempt
    disconnectErr,  \* the error given to OnDisconnected
    toRemote,       \* chunks or packets forwarded local -> remote
    toLocal,        \* chunks or packets forwarded remote -> local
    errc,           \* the results sent on errc by the copy goroutines of TunnelTCP
    copyEnded,      \* the copy directions whose io.Copy has returned
    attemptErr,     \* what the tunneler returned
    tunnelEnd       \* the step the tunneler returned from

cfgVars == <<proxyHost, tlsEnabled, proto, mode, cacheKind, now>>
runVars ==
    <<entries, runPC, rawJWT, err, result, returnedAt, loadErr, handlerTokens,
      handlerErrs, loginCalls, storedJWTs, deletedKeys, entriesAtCall>>
tunnelVars ==
    <<tunnelPC, dials, authorization, statusCode, events, disconnectErr,
      toRemote, toLocal, errc, copyEnded, attemptErr, tunnelEnd>>

jwtCacheKey == CacheKeyForHost(proxyHost, tlsEnabled)

InitRun ==
    /\ proxyHost \in Hosts
    /\ tlsEnabled \in BOOLEAN
    /\ proto \in Protos \cup {"func"}
    /\ mode \in Modes
    /\ cacheKind \in {"local", "memory"}
    /\ now \in 0..MaxTime
    /\ \E mine \in CachedJWTs \cup {Absent} :
         entries = [k \in CacheKeys |->
                      IF k = CacheKeyForHost(proxyHost, tlsEnabled)
                      THEN mine ELSE "jwt.noexp"]
    /\ runPC = "load"
    /\ rawJWT = NoJWT
    /\ err = NilErr
    /\ result = NilErr
    /\ returnedAt = "<none>"
    /\ loadErr = NilErr
    /\ handlerTokens = <<>>
    /\ handlerErrs = <<>>
    /\ loginCalls = 0
    /\ storedJWTs = <<>>
    /\ deletedKeys = <<>>
    /\ entriesAtCall = entries
    /\ ctxDone = FALSE
    /\ tunnelPC = "idle"
    /\ dials = 0
    /\ authorization = "<none>"
    /\ statusCode = 0
    /\ events = <<>>
    /\ disconnectErr = NilErr
    /\ toRemote = 0
    /\ toLocal = 0
    /\ errc = <<>>
    /\ copyEnded = {}
    /\ attemptErr = NilErr
    /\ tunnelEnd = "<none>"

\* rawJWT, err := tun.cfg.jwtCache.LoadJWT(tun.jwtCacheKey()) and the switch
Load ==
    /\ runPC = "load"
    /\ \E loaded \in {LoadJWT(entries, jwtCacheKey, now)}
                       \cup (IF cacheKind = "local" THEN {LoadJWTFailed} ELSE {}) :
         /\ loadErr' = loaded.err
         /\ rawJWT' = loaded.rawJWT
         /\ IF LoadIsFatal(loaded.err)
            THEN /\ result' = Wrapf("tunnel: failed to load JWT", loaded.err)
                 /\ returnedAt' = "load"
                 /\ runPC' = "done"
            ELSE /\ UNCHANGED <<result, returnedAt>>
                 /\ runPC' = "call"
    /\ UNCHANGED <<cfgVars, entries, err, handlerTokens, handlerErrs, loginCalls,
                   storedJWTs, deletedKeys, entriesAtCall, ctxDone, tunnelVars>>

\* err = handler(ctx, rawJWT): the tunneler starts and emits OnConnecting
CallHandler ==
    /\ runPC = "call"
    /\ runPC' = "handler"
    /\ handlerTokens' = Append(handlerTokens, rawJWT)
    /\ entriesAtCall' = entries
    /\ tunnelPC' = IF proto = "func" THEN "func" ELSE "dial"
    /\ dials' = 0
    /\ authorization' = "<none>"
    /\ statusCode' = 0
    /\ events' = IF proto = "func" THEN <<>> ELSE <<"OnConnecting">>
    /\ disconnectErr' = NilErr
    /\ toRemote' = 0
    /\ toLocal' = 0
    /\ errc' = <<>>
    /\ copyEnded' = {}
    /\ attemptErr' = NilErr
    /\ tunnelEnd' = "<none>"
    /\ UNCHANGED <<cfgVars, entries, rawJWT, err, result, returnedAt, loadErr,
                   handlerErrs, loginCalls, storedJWTs, deletedKeys, ctxDone>>

\* a handler that is no tunneler of this package returns
FuncReturns ==
    /\ runPC = "handler"
    /\ tunnelPC = "func"
    /\ \E e \in HandlerResults :
         /\ tunnelPC' = "returned"
         /\ attemptErr' = e
         /\ tunnelEnd' = "func"
    /\ UNCHANGED <<cfgVars, runVars, ctxDone, dials, authorization, statusCode,
                   events, disconnectErr, toRemote, toLocal, errc, copyEnded>>

\* the tunneler returns e from the given step
TunnelReturn(step, e) ==
    /\ tunnelPC' = "returned"
    /\ attemptErr' = e
    /\ tunnelEnd' = step

\* getClientConn / getTransport / the dial of the proxy
Dial ==
    /\ runPC = "handler"
    /\ tunnelPC = "dial"
    /\ IF PrereqError(proto, tlsEnabled) # NilErr
       THEN /\ TunnelReturn("prereq", PrereqError(proto, tlsEnabled))
            /\ dials' = dials
       ELSE /\ dials' = dials + 1
            /\ \E outcome \in DialOutcomes(proto, mode) :
                 IF outcome = "ok"
                 THEN tunnelPC' = "send" /\ UNCHANGED <<attemptErr, tunnelEnd>>
                 ELSE TunnelReturn("dial:" \o outcome, DialError(proto, mode, outcome))
    /\ UNCHANGED <<cfgVars, runVars, ctxDone, authorization, statusCode, events,
                   disconnectErr, toRemote, toLocal, errc, copyEnded>>

\* the request, with its Authorization header, is written to the proxy
SendRequest ==
    /\ runPC = "handler"
    /\ tunnelPC = "send"
    /\ \E ok \in BOOLEAN :
         IF ok
         THEN /\ authorization' = AuthorizationHeader(rawJWT)
              /\ tunnelPC' = "recv"
              /\ UNCHANGED <<attemptErr, tunnelEnd>>
         ELSE /\ authorization' = authorization
              /\ TunnelReturn("send", SendError(proto, mode))
    /\ UNCHANGED <<cfgVars, runVars, ctxDone, dials, statusCode, events,
                   disconnectErr, toRemote, toLocal, errc, copyEnded>>

\* the response is read and its status classified; on 200 OnConnected is
\* emitted and the copy loops are started
ReadResponse ==
    /\ runPC = "handler"
    /\ tunnelPC = "recv"
    /\ \/ /\ TunnelReturn("recv", RecvError(proto, mode))
          /\ UNCHANGED <<statusCode, events>>
       \/ \E code \in StatusCodes :
            /\ statusCode' = code
            /\ events' = EmitConnected(events, StatusError(proto, mode, code))
            /\ IF StatusError(proto, mode, code) = NilErr
               THEN /\ tunnelPC' = "pump"
                    /\ UNCHANGED <<attemptErr, tunnelEnd>>
               ELSE TunnelReturn("status", StatusError(proto, mode, code))
    /\ UNCHANGED <<cfgVars, runVars, ctxDone, dials, authorization,
                   disconnectErr, toRemote, toLocal, errc, copyEnded>>

\* one chunk or packet read from the local side is written to the remote
ForwardToRemote ==
    /\ runPC = "handler"
    /\ CopyLoopsRunning(tunnelPC)
    /\ "local->remote" \notin copyEnded
    /\ toRemote < MaxForward
    /\ toRemote' = toRemote + 1
    /\ UNCHANGED <<cfgVars, runVars, ctxDone, tunnelPC, dials, authorization,
                   statusCode, events, disconnectErr, toLocal, errc, copyEnded,
                   attemptErr, tunnelEnd>>

\* one chunk or packet read from the remote is written to the local side
ForwardToLocal ==
    /\ runPC = "handler"
    /\ CopyLoopsRunning(tunnelPC)
    /\ "remote->local" \notin copyEnded
    /\ toLocal < MaxForward
    /\ toLocal' = toLocal + 1
    /\ UNCHANGED <<cfgVars, runVars, ctxDone, tunnelPC, dials, authorization,
                   statusCode, events, disconnectErr, toRemote, errc, copyEnded,
                   attemptErr, tunnelEnd>>

\* io.Copy of one direction of TunnelTCP returns and its goroutine sends the
\* result on errc, which has room for both
CopyReturns ==
    /\ runPC = "handler"
    /\ mode = "tcp"
    /\ CopyLoopsRunning(tunnelPC)
    /\ \E dir \in CopyDirections \ copyEnded, e \in CopyResults :
         /\ copyEnded' = copyEnded \cup {dir}
         /\ errc' = Append(errc, e)
    /\ UNCHANGED <<cfgVars, runVars, ctxDone, tunnelPC, dials, authorization,
                   statusCode, events, disconnectErr, toRemote, toLocal,
                   attemptErr, tunnelEnd>>

\* the select on errc and ctx.Done() (TCP) or eg.Wait() (UDP), then
\* OnDisconnected(err) and return err
Disconnect ==
    /\ runPC = "handler"
    /\ tunnelPC = "pump"
    /\ \E outcome \in PumpOutcomes(mode, ctxDone, errc) :
         /\ disconnectErr' = PumpError(outcome)
         /\ TunnelReturn("pump:" \o outcome, PumpError(outcome))
    /\ events' = Append(events, "OnDisconnected")
    /\ UNCHANGED <<cfgVars, runVars, ctxDone, dials, authorization, statusCode,
                   toRemote, toLocal, errc, copyEnded>>

\* the context given to the run is cancelled
Cancel ==
    /\ runPC # "done"
    /\ ~ctxDone
    /\ ctxDone' = TRUE
    /\ UNCHANGED <<cfgVars, runVars, tunnelVars>>

\* the handler has returned: runWithJWT takes its error
HandlerReturns ==
    /\ runPC = "handler"
    /\ tunnelPC = "returned"
    /\ err' = attemptErr
    /\ handlerErrs' = Append(handlerErrs, attemptErr)
    /\ tunnelPC' = "idle"
    /\ runPC' = IF NeedsLogin(attemptErr, Len(handlerErrs) + 1)
                THEN "login" ELSE "finish"
    /\ UNCHANGED <<cfgVars, entries, rawJWT, result, returnedAt, loadErr,
                   handlerTokens, loginCalls, storedJWTs, deletedKeys,
                   entriesAtCall, ctxDone, dials, authorization, statusCode,
                   events, disconnectErr, toRemote, toLocal, errc, copyEnded,
                   attemptErr, tunnelEnd>>

\* rawJWT, err = tun.auth.GetJWT(ctx, serverURL, ...)
Login ==
    /\ runPC = "login"
    /\ loginCalls' = loginCalls + 1
    /\ \E ok \in BOOLEAN :
         IF ok
         THEN /\ rawJWT' = FreshJWT
              /\ err' = NilErr
              /\ UNCHANGED <<result, returnedAt>>
              /\ runPC' = "store"
         ELSE /\ rawJWT' = NoJWT
              /\ err' = errIO
              /\ result' = Wrapf("tunnel: failed to get authentication JWT", errIO)
              /\ returnedAt' = "login"
              /\ runPC' = "done"
    /\ UNCHANGED <<cfgVars, entries, loadErr, handlerTokens, handlerErrs,
                   storedJWTs, deletedKeys, entriesAtCall, ctxDone, tunnelVars>>

\* err = tun.cfg.jwtCache.StoreJWT(tun.jwtCacheKey(), rawJWT)
Store ==
    /\ runPC = "store"
    /\ \E ok \in (IF cacheKind = "local" THEN BOOLEAN ELSE {TRUE}) :
         /\ storedJWTs' = Append(storedJWTs,
                                 [key |-> jwtCacheKey, rawJWT |-> rawJWT, ok |-> ok])
         /\ IF ok
            THEN /\ entries' = StoreJWT(entries, jwtCacheKey, rawJWT)
                 /\ err' = NilErr
                 /\ UNCHANGED <<result, returnedAt>>
                 /\ runPC' = "call"
            ELSE /\ entries' = entries
                 /\ err' = errIO
                 /\ result' = Wrapf("tunnel: failed to store JWT", errIO)
                 /\ returnedAt' = "store"
                 /\ runPC' = "done"
    /\ UNCHANGED <<cfgVars, rawJWT, loadErr, handlerTokens, handlerErrs,
                   loginCalls, deletedKeys, entriesAtCall, ctxDone, tunnelVars>>

\* the final if / else if of runWithJWT; the error of DeleteJWT is dropped
Finish ==
    /\ runPC = "finish"
    /\ IF DeletesJWT(err)
       THEN /\ deletedKeys' = Append(deletedKeys, jwtCacheKey)
            /\ \E ok \in (IF cacheKind = "local" THEN BOOLEAN ELSE {TRUE}) :
                 entries' = IF ok THEN DeleteJWT(entries, jwtCacheKey) ELSE entries
       ELSE UNCHANGED <<deletedKeys, entries>>
    /\ result' = err
    /\ returnedAt' = "finish"
    /\ runPC' = "done"
    /\ UNCHANGED <<cfgVars, rawJWT, err, loadErr, handlerTokens, handlerErrs,
                   loginCalls, storedJWTs, entriesAtCall, ctxDone, tunnelVars>>

\* the orchestrator and the tunneler are not running
RunOff ==
    /\ proxyHost = "proxy.a"
    /\ tlsEnabled = TRUE
    /\ proto = "http1"
    /\ mode = "tcp"
    /\ cacheKind = "memory"
    /\ now = 0
    /\ entries = [k \in CacheKeys |-> Absent]
    /\ runPC = "off"
    /\ rawJWT = NoJWT
    /\ err = NilErr
    /\ result = NilErr
    /\ returnedAt = "<none>"
    /\ loadErr = NilErr
    /\ handlerTokens = <<>>
    /\ handlerErrs = <<>>
    /\ loginCalls = 0
    /\ storedJWTs = <<>>
    /\ deletedKeys = <<>>
    /\ entriesAtCall = entries
    /\ ctxDone = FALSE
    /\ tunnelPC = "idle"
    /\ dials = 0
    /\ authorization = "<none>"
    /\ statusCode = 0
    /\ events = <<>>
    /\ disconnectErr = NilErr
    /\ toRemote = 0
    /\ toLocal = 0
    /\ errc = <<>>
    /\ copyEnded = {}
    /\ attemptErr = NilErr
    /\ tunnelEnd = "<none>"

(***************************************************************************)
(* The fallback tunneler: fallbackTCPTunneler and fallbackUDPTunneler,     *)
(* which share their code but for the method they call.                    *)
(***************************************************************************)
\* the callers of one fallback tunneler
Callers == {"c1", "c2"}

\* a nil entry of t.tunnelers
NilTunneler == 0

\* what a wrapped tunneler can return
TunnelerResults ==
    { NilErr, errUnavailable, errUnauthenticated, errIO,
      PrereqError("http2", FALSE), http3RoundTripError(errNet) }

\* a plausible slip: the error of an exhausted list does not wrap errUnsupported
errNoTunnelersPlain == Errorf("no tunnelers defined")

\* fmt.Errorf("%w: no tunnelers defined", errUnsupported)
errNoTunnelers == [is |-> errUnsupported.is, msg |-> "unsupported: no tunnelers defined"]

\* a plausible slip: a tunneler is removed after any error
RemovesTunnelerOnAnyError(e) == e # NilErr

\* "if errors.Is(err, errUnsupported)": the entry is set to nil and the loop
\* goes on to the next one
RemovesTunneler(e) == ErrorsIs(e, "unsupported")

\* a plausible slip: the entry of a tunneler that failed is left in the list
RemoveKept(list, i) == list

\* t.tunnelers[i] = nil
Remove(list, i) == [list EXCEPT ![i] = NilTunneler]

VARIABLES
    fbMode,         \* "tcp" (fallbackTCPTunneler) or "udp" (fallbackUDPTunneler)
    tunnelers,      \* t.tunnelers
    fbPC,           \* where each caller stands in TunnelTCP / TunnelUDP
    fbIndex,        \* the loop variable i of each caller
    fbCall,         \* the position in fbCalls of each caller's current call
    fbCalls         \* one record per call, in the order the calls started

fbVars == <<fbMode, tunnelers, fbPC, fbIndex, fbCall, fbCalls>>

\* no fallback tunneler is in use
FallbackOff ==
    /\ fbMode = "tcp"
    /\ tunnelers = <<>>
    /\ fbPC = [c \in Callers |-> "off"]
    /\ fbIndex = [c \in Callers |-> 0]
    /\ fbCall = [c \in Callers |-> 0]
    /\ fbCalls = <<>>

\* newFallbackTCPTunneler(tunnelers...) / newFallbackUDPTunneler(tunnelers...)
InitFallback ==
    /\ fbMode \in Modes
    /\ \E n \in 0..MaxTunnelers : tunnelers = [i \in 1..n |-> i]
    /\ fbPC = [c \in Callers |-> "idle"]
    /\ fbIndex = [c \in Callers |-> 0]
    /\ fbCall = [c \in Callers |-> 0]
    /\ fbCalls = <<>>

\* a caller enters TunnelTCP / TunnelUDP
FallbackEnter(c) ==
    /\ fbPC[c] = "idle"
    /\ Len(fbCalls) < MaxCalls
    /\ fbPC' = [fbPC EXCEPT ![c] = "loop"]
    /\ fbIndex' = [fbIndex EXCEPT ![c] = 1]
    /\ fbCall' = [fbCall EXCEPT ![c] = Len(fbCalls) + 1]
    /\ fbCalls' = Append(fbCalls,
                         [caller |-> c, before |-> tunnelers, invoked |-> <<>>,
                          results |-> <<>>, returned |-> FALSE, ret |-> NilErr])
    /\ UNCHANGED <<fbMode, tunnelers>>

\* successive calls: a caller enters when no other call is in progress
FallbackEnterAlone(c) ==
    /\ \A d \in Callers : fbPC[d] = "idle"
    /\ FallbackEnter(c)

\* the head of the loop: the list is exhausted, or the entry is read under
\* the mutex and skipped when nil
FallbackLoop(c) ==
    /\ fbPC[c] = "loop"
    /\ IF fbIndex[c] > Len(tunnelers)
       THEN /\ fbPC' = [fbPC EXCEPT ![c] = "idle"]
            /\ fbCalls' = [fbCalls EXCEPT ![fbCall[c]].returned = TRUE,
                                          ![fbCall[c]].ret = errNoTunnelers]
            /\ fbIndex' = fbIndex
       ELSE IF tunnelers[fbIndex[c]] = NilTunneler
       THEN /\ fbIndex' = [fbIndex EXCEPT ![c] = @ + 1]
            /\ UNCHANGED <<fbPC, fbCalls>>
       ELSE /\ fbPC' = [fbPC EXCEPT ![c] = "tunnel"]
            /\ fbCalls' = [fbCalls EXCEPT ![fbCall[c]].invoked =
                                              Append(@, tunnelers[fbIndex[c]])]
            /\ fbIndex' = fbIndex
    /\ UNCHANGED <<fbMode, tunnelers, fbCall>>

\* the tunneler that was read returns: unsupported removes it and the loop
\* continues, anything else is returned as it is
FallbackTunnelReturns(c) ==
    /\ fbPC[c] = "tunnel"
    /\ \E e \in TunnelerResults :
         IF RemovesTunneler(e)
         THEN /\ tunnelers' = Remove(tunnelers, fbIndex[c])
              /\ fbIndex' = [fbIndex EXCEPT ![c] = @ + 1]
              /\ fbPC' = [fbPC EXCEPT ![c] = "loop"]
              /\ fbCalls' = [fbCalls EXCEPT ![fbCall[c]].results = Append(@, e)]
         ELSE /\ tunnelers' = tunnelers
              /\ fbIndex' = fbIndex
              /\ fbPC' = [fbPC EXCEPT ![c] = "idle"]
              /\ fbCalls' = [fbCalls EXCEPT ![fbCall[c]].results = Append(@, e),
                                            ![fbCall[c]].returned = TRUE,
                                            ![fbCall[c]].ret = e]
    /\ UNCHANGED <<fbMode, fbCall>>

(***************************************************************************)
(* deBuffer: the reader http1tunneler.TunnelTCP copies from, once the      *)
(* response has been read through a bufio.Reader.                          *)
(***************************************************************************)
\* bytes of the response head that http.ReadResponse consumes
HeadLen == 2
\* bytes the proxy sends after the response head
MaxPayload == 4
\* size of the buffer of the bufio.Reader
BufSize == 5

HeadByte == 0

\* the stream the proxy sends: the response head, then n payload bytes
RemoteStream(n) == [i \in 1..(HeadLen + n) |-> IF i <= HeadLen THEN HeadByte ELSE i - HeadLen]

Min(a, b) == IF a < b THEN a ELSE b

\* a plausible slip: the copy loop is handed the raw socket
deBufferUnderlyingOnly(buffered) == [multi |-> FALSE, limit |-> 0]

\* deBuffer(br, underlying): the underlying reader when nothing is buffered,
\* else io.MultiReader(io.LimitReader(br, br.Buffered()), underlying)
deBuffer(buffered) ==
    IF buffered = 0
    THEN [multi |-> FALSE, limit |-> 0]
    ELSE [multi |-> TRUE, limit |-> buffered]

VARIABLES
    dbPC,           \* "response" (http.ReadResponse), "copy" (io.Copy), "off"
    dbPayload,      \* the bytes the proxy sends after the response head
    dbInflight,     \* bytes sent by the proxy that have not reached the socket
    dbSocket,       \* bytes that reached the socket and were not read from it
    dbBuf,          \* bytes the bufio.Reader has read and not handed out
    dbReader,       \* remoteReader, the result of deBuffer
    dbBuffered,     \* br.Buffered() when deBuffer was called
    dbLocal         \* bytes written to the local stream

dbVars ==
    <<dbPC, dbPayload, dbInflight, dbSocket, dbBuf, dbReader, dbBuffered, dbLocal>>

\* no HTTP/1.1 byte stream is being followed
DeBufferOff ==
    /\ dbPC = "off"
    /\ dbPayload = <<>>
    /\ dbInflight = <<>>
    /\ dbSocket = <<>>
    /\ dbBuf = <<>>
    /\ dbReader = deBuffer(0)
    /\ dbBuffered = 0
    /\ dbLocal = <<>>

\* the request has been written; br := bufio.NewReader(remote)
InitDeBuffer ==
    /\ dbPC = "response"
    /\ \E n \in 0..MaxPayload :
         /\ dbPayload = [i \in 1..n |-> i]
         /\ dbInflight = RemoteStream(n)
    /\ dbSocket = <<>>
    /\ dbBuf = <<>>
    /\ dbReader = deBuffer(0)
    /\ dbBuffered = 0
    /\ dbLocal = <<>>

\* some of the bytes the proxy sent reach the socket
SocketReceives ==
    /\ dbPC \in {"response", "copy"}
    /\ \E k \in 1..Len(dbInflight) :
         /\ dbSocket' = dbSocket \o SubSeq(dbInflight, 1, k)
         /\ dbInflight' = SubSeq(dbInflight, k + 1, Len(dbInflight))
    /\ UNCHANGED <<dbPC, dbPayload, dbBuf, dbReader, dbBuffered, dbLocal>>

\* http.ReadResponse needs more bytes: the bufio.Reader fills its buffer with
\* what one Read of the socket returns
FillBuffer ==
    /\ dbPC = "response"
    /\ Len(dbBuf) < HeadLen
    /\ \E k \in 1..Min(Len(dbSocket), BufSize - Len(dbBuf)) :
         /\ dbBuf' = dbBuf \o SubSeq(dbSocket, 1, k)
         /\ dbSocket' = SubSeq(dbSocket, k + 1, Len(dbSocket))
    /\ UNCHANGED <<dbPC, dbPayload, dbInflight, dbReader, dbBuffered, dbLocal>>

\* http.ReadResponse returns, having consumed the response head, and
\* remoteReader := deBuffer(br, remote)
ResponseRead ==
    /\ dbPC = "response"
    /\ Len(dbBuf) >= HeadLen
    /\ dbBuf' = SubSeq(dbBuf, HeadLen + 1, Len(dbBuf))
    /\ dbBuffered' = Len(dbBuf) - HeadLen
    /\ dbReader' = deBuffer(Len(dbBuf) - HeadLen)
    /\ dbPC' = "copy"
    /\ UNCHANGED <<dbPayload, dbInflight, dbSocket, dbLocal>>

\* one Read of io.Copy(local, remoteReader) and the Write of what it returned:
\* the limited bufio.Reader hands out buffered bytes while its limit lasts,
\* then the MultiReader moves on to the socket
CopyToLocal ==
    /\ dbPC = "copy"
    /\ IF dbReader.multi /\ dbReader.limit > 0
       THEN \E k \in 1..Min(dbReader.limit, Len(dbBuf)) :
              /\ dbLocal' = dbLocal \o SubSeq(dbBuf, 1, k)
              /\ dbBuf' = SubSeq(dbBuf, k + 1, Len(dbBuf))
              /\ dbReader' = [dbReader EXCEPT !.limit = @ - k]
              /\ dbSocket' = dbSocket
       ELSE \E k \in 1..Len(dbSocket) :
              /\ dbLocal' = dbLocal \o SubSeq(dbSocket, 1, k)
              /\ dbSocket' = SubSeq(dbSocket, k + 1, Len(dbSocket))
              /\ UNCHANGED <<dbBuf, dbReader>>
    /\ UNCHANGED <<dbPC, dbPayload, dbInflight, dbBuffered>>

(***************************************************************************)
(* The selection of the tunneler: Tunnel.pickTCPTunneler, cached by        *)
(* Tunnel.Run in tun.tcpTunneler under tun.mu, and Tunnel.pickUDPTunneler, *)
(* called by the handler of every UDP session.                             *)
(***************************************************************************)
\* Run calls and UDP sessions started on one Tunnel
MaxRuns == 2

\* values of the Alt-Svc header of the probe response, as character sequences
AltSvcValues ==
    { <<>>,
      <<"h", "3", "=", ":", "4", "4", "3">>,
      <<"h", "2", "=", ":", "4", "4", "3">>,
      <<"h", "2", ",", "h", "3", "-", "2", "9">> }

\* strings.Contains(v, sub)
Contains(v, sub) ==
    \E i \in 1..(Len(v) - Len(sub) + 1) : SubSeq(v, i, i + Len(sub) - 1) = sub

\* what the probe request can end with: the request cannot be created, the
\* request fails, or a response with its Alt-Svc header and protocol version
ProbeOutcomes ==
    { [kind |-> k, altSvc |-> <<>>, protoMajor |-> 1] : k \in {"norequest", "fail"} }
        \cup { [kind |-> "ok", altSvc |-> v, protoMajor |-> m] :
                 v \in AltSvcValues, m \in {1, 2} }

\* the outcome recorded for a selection that made no probe
NoProbe == [kind |-> "none", altSvc |-> <<>>, protoMajor |-> 1]

\* whether client.Do(req) is reached
ProbeIssued(tls, outcome) == tls /\ outcome.kind \in {"fail", "ok"}

\* a plausible slip: the protocol of the probe is looked at before Alt-Svc
pickTCPTunnelerByProtoFirst(tls, outcome) ==
    IF ~tls \/ outcome.kind # "ok" THEN "http1"
    ELSE IF outcome.protoMajor = 2 THEN "http2"
    ELSE IF Contains(outcome.altSvc, <<"h", "3">>) THEN "http3"
    ELSE "http1"

pickTCPTunneler(tls, outcome) ==
    IF ~tls THEN "http1"
    ELSE IF outcome.kind # "ok" THEN "http1"
    ELSE IF Contains(outcome.altSvc, <<"h", "3">>) THEN "http3"
    ELSE IF outcome.protoMajor = 2 THEN "http2"
    ELSE "http1"

pickUDPTunneler(tls, outcome) ==
    IF ~tls THEN "http1"
    ELSE IF outcome.kind # "ok" THEN "http1"
    ELSE IF Contains(outcome.altSvc, <<"h", "3">>) THEN "http3"
    ELSE "http1"

NoTunneler == "nil"

VARIABLES
    pkTLS,          \* tun.cfg.tlsConfig != nil
    mu,             \* tun.mu: the caller holding it, or "free"
    tcpTunneler,    \* tun.tcpTunneler
    pkPC,           \* where each caller stands
    pkKind,         \* what each caller runs: "tcp" (Run) or "udp" (a UDP session)
    pkTunneler,     \* the local tunneler of the handler of a UDP session
    pkAttempt,      \* the handler invocations of runWithJWT in the caller's run
    pkRuns,         \* Run calls and UDP sessions started so far
    probes,         \* probe requests made, one record per selection
    used            \* the tunneler of every tunnel attempt, in order

pkVars ==
    <<pkTLS, mu, tcpTunneler, pkPC, pkKind, pkTunneler, pkAttempt, pkRuns,
      probes, used>>

\* no Tunnel is selecting a tunneler
PickOff ==
    /\ pkTLS = FALSE
    /\ mu = "free"
    /\ tcpTunneler = NoTunneler
    /\ pkPC = [c \in Callers |-> "off"]
    /\ pkKind = [c \in Callers |-> "tcp"]
    /\ pkTunneler = [c \in Callers |-> NoTunneler]
    /\ pkAttempt = [c \in Callers |-> 0]
    /\ pkRuns = 0
    /\ probes = <<>>
    /\ used = <<>>

\* New(options...)
InitPick ==
    /\ pkTLS \in BOOLEAN
    /\ mu = "free"
    /\ tcpTunneler = NoTunneler
    /\ pkPC = [c \in Callers |-> "idle"]
    /\ pkKind = [c \in Callers |-> "tcp"]
    /\ pkTunneler = [c \in Callers |-> NoTunneler]
    /\ pkAttempt = [c \in Callers |-> 0]
    /\ pkRuns = 0
    /\ probes = <<>>
    /\ used = <<>>

\* Tunnel.Run is called: runWithJWT invokes the handler
RunStart(c) ==
    /\ pkPC[c] = "idle"
    /\ pkRuns < MaxRuns
    /\ pkRuns' = pkRuns + 1
    /\ pkKind' = [pkKind EXCEPT ![c] = "tcp"]
    /\ pkAttempt' = [pkAttempt EXCEPT ![c] = 1]
    /\ pkPC' = [pkPC EXCEPT ![c] = "lock"]
    /\ UNCHANGED <<pkTLS, mu, tcpTunneler, pkTunneler, probes, used>>

\* tun.mu.Lock()
Lock(c) ==
    /\ pkPC[c] = "lock"
    /\ mu = "free"
    /\ mu' = c
    /\ pkPC' = [pkPC EXCEPT ![c] = "locked"]
    /\ UNCHANGED <<pkTLS, tcpTunneler, pkKind, pkTunneler, pkAttempt, pkRuns,
                   probes, used>>

\* if tun.tcpTunneler == nil { tun.tcpTunneler = tun.pickTCPTunneler(ctx) }
PickTCP(c) ==
    /\ pkPC[c] = "locked"
    /\ IF tcpTunneler = NoTunneler
       THEN \E outcome \in (IF pkTLS THEN ProbeOutcomes ELSE {NoProbe}) :
              /\ tcpTunneler' = pickTCPTunneler(pkTLS, outcome)
              /\ probes' = Append(probes,
                                  [caller |-> c, kind |-> "tcp", tls |-> pkTLS,
                                   outcome |-> outcome,
                                   issued |-> ProbeIssued(pkTLS, outcome),
                                   picked |-> pickTCPTunneler(pkTLS, outcome)])
       ELSE UNCHANGED <<tcpTunneler, probes>>
    /\ pkPC' = [pkPC EXCEPT ![c] = "unlock"]
    /\ UNCHANGED <<pkTLS, mu, pkKind, pkTunneler, pkAttempt, pkRuns, used>>

\* tun.mu.Unlock(), then tun.tcpTunneler.TunnelTCP(...)
Unlock(c) ==
    /\ pkPC[c] = "unlock"
    /\ mu' = "free"
    /\ used' = Append(used, [caller |-> c, kind |-> "tcp", tunneler |-> tcpTunneler])
    /\ pkPC' = [pkPC EXCEPT ![c] = "tunnel"]
    /\ UNCHANGED <<pkTLS, tcpTunneler, pkKind, pkTunneler, pkAttempt, pkRuns, probes>>

\* the handler of a UDP session starts: tunneler := tun.pickUDPTunneler(ctx),
\* then runWithJWT invokes tunneler.TunnelUDP
SessionStart(c) ==
    /\ pkPC[c] = "idle"
    /\ pkRuns < MaxRuns
    /\ pkRuns' = pkRuns + 1
    /\ pkKind' = [pkKind EXCEPT ![c] = "udp"]
    /\ pkAttempt' = [pkAttempt EXCEPT ![c] = 1]
    /\ \E outcome \in (IF pkTLS THEN ProbeOutcomes ELSE {NoProbe}) :
         /\ pkTunneler' = [pkTunneler EXCEPT ![c] = pickUDPTunneler(pkTLS, outcome)]
         /\ probes' = Append(probes,
                             [caller |-> c, kind |-> "udp", tls |-> pkTLS,
                              outcome |-> outcome,
                              issued |-> ProbeIssued(pkTLS, outcome),
                              picked |-> pickUDPTunneler(pkTLS, outcome)])
         /\ used' = Append(used, [caller |-> c, kind |-> "udp",
                                  tunneler |-> pickUDPTunneler(pkTLS, outcome)])
    /\ pkPC' = [pkPC EXCEPT ![c] = "tunnel"]
    /\ UNCHANGED <<pkTLS, mu, tcpTunneler>>

\* the tunnel attempt returns: runWithJWT returns, or, after the first attempt
\* asked for a login, invokes the handler once more
AttemptReturns(c) ==
    /\ pkPC[c] = "tunnel"
    /\ \E retry \in (IF pkAttempt[c] = 1 THEN BOOLEAN ELSE {FALSE}) :
         IF ~retry
         THEN /\ pkPC' = [pkPC EXCEPT ![c] = "idle"]
              /\ pkAttempt' = [pkAttempt EXCEPT ![c] = 0]
              /\ pkTunneler' = [pkTunneler EXCEPT ![c] = NoTunneler]
              /\ used' = used
         ELSE /\ pkAttempt' = [pkAttempt EXCEPT ![c] = 2]
              /\ pkTunneler' = pkTunneler
              /\ IF pkKind[c] = "tcp"
                 THEN /\ pkPC' = [pkPC EXCEPT ![c] = "lock"]
                      /\ used' = used
                 ELSE /\ pkPC' = pkPC
                      /\ used' = Append(used, [caller |-> c, kind |-> "udp",
                                               tunneler |-> pkTunneler[c]])
    /\ UNCHANGED <<pkTLS, mu, tcpTunneler, pkKind, pkRuns, probes>>

(***************************************************************************)
(* The UDP session manager: the read loop, the dispatch loop with          *)
(* sendOrDrop and dropAll, and the sessions with their inbound queues.     *)
(***************************************************************************)
\* packets the socket receives
MaxPackets == 4
\* capacity of the inbound queue of a session: make(chan UDPPacket, 128)
SessionCap == 2
\* sessions the dispatch loop creates
MaxSessions == 3
\* capacity of mgr.in: make(chan UDPPacket, 1)
ManagerCap == 1

\* the peer addresses packets come from
Peers == {"peer.a", "peer.b"}

NoPacket == [addr |-> "none", id |-> 0]

NoSession == 0

\* a plausible slip: a packet is put at the head of a queue
EnqueueAtHead(queue, packet) == <<packet>> \o queue

\* ch <- packet
Enqueue(queue, packet) == Append(queue, packet)

\* a plausible slip: a full queue is emptied to make room
EvictAll(queue) == <<>>

\* the second select of sendOrDrop: <-ch takes the oldest packet away
Evict(queue) == Tail(queue)

\* a plausible slip: the packet goes to any session there is
SessionOfAnyPeer(sessions, addr) ==
    IF \E a \in Peers : sessions[a] # NoSession
    THEN sessions[CHOOSE a \in Peers : sessions[a] # NoSession]
    ELSE NoSession

\* s, ok := sessions[packet.Addr]
SessionOf(sessions, addr) == sessions[addr]

\* a plausible slip: every packet starts a session
NoSessionEver(sessions, addr) == TRUE

\* !ok of s, ok := sessions[packet.Addr]
NoSessionYet(sessions, addr) == SessionOf(sessions, addr) = NoSession

\* packets the socket receives while the loops of run can end
MaxRunPackets == 2
\* capacity of the inbound queue of a session while the loops of run can end
RunSessionCap == 1

\* the error of a socket operation whose deadline has passed
errDeadlineExceeded == NewError("i/o timeout")

\* fmt.Errorf("udp-session-manager: error reading udp packet: %w", err)
errReadUDP(e) == Wrapf("udp-session-manager: error reading udp packet", e)

\* fmt.Errorf("udp-session-manager: error writing udp packet: %w", err)
errWriteUDP(e) == Wrapf("udp-session-manager: error writing udp packet", e)

\* the loops of the errgroup of run
Loops == {"read", "dispatch", "write"}

\* what the handler of a session returns
SessionResults == {NilErr, errNet}

\* newUDPSession(mgr, addr)
newUDPSession(addr) ==
    [addr |-> addr, in |-> <<>>, state |-> "running", result |-> NilErr,
     delivered |-> <<>>, pushed |-> <<>>, dropped |-> 0]

\* a plausible slip: the session that stopped stays in the map
DeleteNoSession(sessions, addr) == sessions

\* dispatch, case s := <-stopped: delete(sessions, s.addr)
DeleteSession(sessions, addr) == [sessions EXCEPT ![addr] = NoSession]

\* a plausible slip: the packet keeps the address the tunneler gave it
KeepAddr(packet, s) == packet

\* WritePacket: packet.Addr = s.addr
RewriteAddr(packet, s) == [packet EXCEPT !.addr = s.addr]

\* a plausible slip: the error of the socket is returned whatever the context
SocketErrorUnchecked(cause, e) == e

\* read and write, after an error of the socket: select { case <-ctx.Done():
\* return context.Cause(ctx); default: }, then the wrapped error
SocketError(cause, e) == IF cause # NilErr THEN cause ELSE e

\* a plausible slip: the error of a handler cancels the context of the manager
CauseAfterHandlerFailed(cause, e) ==
    IF cause = NilErr /\ e # NilErr THEN e ELSE cause

\* dispatch: _ = s.run(ctx) discards what the handler returned
CauseAfterHandler(cause, e) == cause

VARIABLES
    udpReceived,    \* every packet the socket has received, in order
    udpSocket,      \* packets received by the socket that ReadFromUDP has not returned
    readPacket,     \* the packet the read loop holds for mgr.in, or NoPacket
    mgrIn,          \* mgr.in
    sessions,       \* the map of the dispatch loop: the session of each peer address
    sessionList,    \* every session created, in order of creation
    dispatchPC,     \* "select", or the place in sendOrDrop: "send", "evict"
    dispatchPacket, \* the packet the dispatch loop is handling
    dispatchTo,     \* the session it is handing the packet to
    dispatchDropped,\* the local dropped of sendOrDrop
    udpCtx,         \* the context given to run: "live" or "cancelled"
    udpCause,       \* context.Cause(ectx), NilErr while ectx is not done
    udpLoop,        \* each loop of the errgroup: "running" or "returned"
    udpLoopErr,     \* what each loop returned
    egErr,          \* the first error a loop returned to the errgroup
    udpRun,         \* run: "running" or "returned"
    udpRunErr,      \* what run returned
    mgrOut,         \* mgr.out
    writePacket     \* the packet the write loop holds for WriteToUDP, or NoPacket

udpInVars ==
    <<udpReceived, udpSocket, readPacket, mgrIn, sessions, sessionList,
      dispatchPC, dispatchPacket, dispatchTo, dispatchDropped>>

udpOutVars == <<mgrOut, writePacket>>

udpCtlVars == <<udpCtx, udpCause, udpLoop, udpLoopErr, egErr, udpRun, udpRunErr>>

udpVars == <<udpInVars, udpOutVars, udpCtlVars>>

\* ctx.Done() of the context of the errgroup is closed
ectxDone == udpCause # NilErr

Running(loop) == udpLoop[loop] = "running"

\* no UDP session manager is running
UDPOff ==
    /\ udpReceived = <<>>
    /\ udpSocket = <<>>
    /\ readPacket = NoPacket
    /\ mgrIn = <<>>
    /\ sessions = [a \in Peers |-> NoSession]
    /\ sessionList = <<>>
    /\ dispatchPC = "off"
    /\ dispatchPacket = NoPacket
    /\ dispatchTo = NoSession
    /\ dispatchDropped = 0
    /\ udpCtx = "off"
    /\ udpCause = NilErr
    /\ udpLoop = [l \in Loops |-> "off"]
    /\ udpLoopErr = [l \in Loops |-> NilErr]
    /\ egErr = NilErr
    /\ udpRun = "off"
    /\ udpRunErr = NilErr
    /\ mgrOut = <<>>
    /\ writePacket = NoPacket

\* newUDPSessionManager(conn, handler).run(ctx)
InitUDP ==
    /\ udpReceived = <<>>
    /\ udpSocket = <<>>
    /\ readPacket = NoPacket
    /\ mgrIn = <<>>
    /\ sessions = [a \in Peers |-> NoSession]
    /\ sessionList = <<>>
    /\ dispatchPC = "select"
    /\ dispatchPacket = NoPacket
    /\ dispatchTo = NoSession
    /\ dispatchDropped = 0
    /\ udpCtx = "live"
    /\ udpCause = NilErr
    /\ udpLoop = [l \in Loops |-> "running"]
    /\ udpLoopErr = [l \in Loops |-> NilErr]
    /\ egErr = NilErr
    /\ udpRun = "running"
    /\ udpRunErr = NilErr
    /\ mgrOut = <<>>
    /\ writePacket = NoPacket

\* a function of the errgroup returns err: the first error is kept and
\* cancels the context of the group
LoopReturns(loop, e) ==
    /\ udpLoop' = [udpLoop EXCEPT ![loop] = "returned"]
    /\ udpLoopErr' = [udpLoopErr EXCEPT ![loop] = e]
    /\ egErr' = IF egErr = NilErr THEN e ELSE egErr
    /\ udpCause' = IF udpCause = NilErr THEN e ELSE udpCause
    /\ UNCHANGED <<udpCtx, udpRun, udpRunErr>>

\* the caller cancels the context given to run
CancelContext ==
    /\ udpCtx = "live"
    /\ udpCtx' = "cancelled"
    /\ udpCause' = IF udpCause = NilErr THEN errCanceled ELSE udpCause
    /\ UNCHANGED <<udpInVars, udpOutVars, udpLoop, udpLoopErr, egErr, udpRun, udpRunErr>>

\* a packet of one of the peers in from reaches the socket
PacketArrives(max, from) ==
    /\ udpRun = "running"
    /\ Len(udpReceived) < max
    /\ \E a \in from :
         LET packet == [addr |-> a, id |-> Len(udpReceived) + 1] IN
         /\ udpReceived' = Append(udpReceived, packet)
         /\ udpSocket' = Append(udpSocket, packet)
    /\ UNCHANGED <<readPacket, mgrIn, sessions, sessionList, dispatchPC,
                   dispatchPacket, dispatchTo, dispatchDropped>>
    /\ UNCHANGED <<udpOutVars, udpCtlVars>>

\* read: n, addr, err := mgr.conn.ReadFromUDP(buffer[:]) returns a packet
ReadFromUDP ==
    /\ Running("read")
    /\ readPacket = NoPacket
    /\ udpSocket # <<>>
    /\ readPacket' = Head(udpSocket)
    /\ udpSocket' = Tail(udpSocket)
    /\ UNCHANGED <<udpReceived, mgrIn, sessions, sessionList, dispatchPC,
                   dispatchPacket, dispatchTo, dispatchDropped>>
    /\ UNCHANGED <<udpOutVars, udpCtlVars>>

\* read: ReadFromUDP returns an error of the socket, and the loop returns
ReadFromUDPFails ==
    /\ Running("read")
    /\ readPacket = NoPacket
    /\ LoopReturns("read", SocketError(udpCause, errReadUDP(errIO)))
    /\ UNCHANGED <<udpInVars, udpOutVars>>

\* read: context.AfterFunc(ctx, func() { _ = mgr.conn.SetReadDeadline(time.Now()) })
\* makes ReadFromUDP return the error of the deadline, and the loop returns
ReadDeadlineExceeded ==
    /\ Running("read")
    /\ readPacket = NoPacket
    /\ ectxDone
    /\ LoopReturns("read", SocketError(udpCause, errReadUDP(errDeadlineExceeded)))
    /\ UNCHANGED <<udpInVars, udpOutVars>>

\* read: mgr.in <- packet, which waits for room
ReadSends ==
    /\ Running("read")
    /\ readPacket # NoPacket
    /\ Len(mgrIn) < ManagerCap
    /\ mgrIn' = Enqueue(mgrIn, readPacket)
    /\ readPacket' = NoPacket
    /\ UNCHANGED <<udpReceived, udpSocket, sessions, sessionList, dispatchPC,
                   dispatchPacket, dispatchTo, dispatchDropped>>
    /\ UNCHANGED <<udpOutVars, udpCtlVars>>

\* read: case <-ctx.Done() of the select that sends on mgr.in
ReadCancelled ==
    /\ Running("read")
    /\ readPacket # NoPacket
    /\ ectxDone
    /\ readPacket' = NoPacket
    /\ LoopReturns("read", udpCause)
    /\ UNCHANGED <<udpReceived, udpSocket, mgrIn, sessions, sessionList,
                   dispatchPC, dispatchPacket, dispatchTo, dispatchDropped>>
    /\ UNCHANGED udpOutVars

\* dispatch: case packet := <-mgr.in: the session of the peer is looked up, and
\* created and started when there is none; sendOrDrop is entered
DispatchPacket ==
    /\ dispatchPC = "select"
    /\ mgrIn # <<>>
    /\ mgrIn' = Tail(mgrIn)
    /\ dispatchPacket' = Head(mgrIn)
    /\ dispatchDropped' = 0
    /\ dispatchPC' = "send"
    /\ IF NoSessionYet(sessions, Head(mgrIn).addr)
       THEN /\ Len(sessionList) < MaxSessions
            /\ sessionList' = Append(sessionList, newUDPSession(Head(mgrIn).addr))
            /\ sessions' = [sessions EXCEPT ![Head(mgrIn).addr] = Len(sessionList) + 1]
            /\ dispatchTo' = Len(sessionList) + 1
       ELSE /\ dispatchTo' = SessionOf(sessions, Head(mgrIn).addr)
            /\ UNCHANGED <<sessions, sessionList>>
    /\ UNCHANGED <<udpReceived, udpSocket, readPacket>>
    /\ UNCHANGED <<udpOutVars, udpCtlVars>>

\* sendOrDrop: the first select (ch <- packet, else default) and the test of
\* cap(ch)
SendOrDropSend(cap) ==
    /\ dispatchPC = "send"
    /\ IF Len(sessionList[dispatchTo].in) < cap
       THEN /\ sessionList' =
                 [sessionList EXCEPT
                    ![dispatchTo].in = Enqueue(@, dispatchPacket),
                    ![dispatchTo].pushed = Append(@, dispatchPacket),
                    ![dispatchTo].dropped = @ + dispatchDropped]
            /\ dispatchPC' = "select"
            /\ dispatchDropped' = 0
       ELSE IF cap = 0
       THEN /\ sessionList' =
                 [sessionList EXCEPT
                    ![dispatchTo].pushed = Append(@, dispatchPacket),
                    ![dispatchTo].dropped = @ + dispatchDropped + 1]
            /\ dispatchPC' = "select"
            /\ dispatchDropped' = 0
       ELSE /\ dispatchPC' = "evict"
            /\ UNCHANGED <<sessionList, dispatchDropped>>
    /\ UNCHANGED <<udpReceived, udpSocket, readPacket, mgrIn, sessions,
                   dispatchPacket, dispatchTo>>
    /\ UNCHANGED <<udpOutVars, udpCtlVars>>

\* sendOrDrop: the second select (<-ch, else default), then the loop goes round
SendOrDropEvict ==
    /\ dispatchPC = "evict"
    /\ IF sessionList[dispatchTo].in # <<>>
       THEN /\ sessionList' = [sessionList EXCEPT ![dispatchTo].in = Evict(@)]
            /\ dispatchDropped' = dispatchDropped + 1
       ELSE UNCHANGED <<sessionList, dispatchDropped>>
    /\ dispatchPC' = "send"
    /\ UNCHANGED <<udpReceived, udpSocket, readPacket, mgrIn, sessions,
                   dispatchPacket, dispatchTo>>
    /\ UNCHANGED <<udpOutVars, udpCtlVars>>

\* dispatch: case <-ctx.Done(): dropAll(mgr.in), return context.Cause(ctx)
DispatchCancelled ==
    /\ dispatchPC = "select"
    /\ ectxDone
    /\ mgrIn' = <<>>
    /\ dispatchPC' = "done"
    /\ LoopReturns("dispatch", udpCause)
    /\ UNCHANGED <<udpReceived, udpSocket, readPacket, sessions, sessionList,
                   dispatchPacket, dispatchTo, dispatchDropped>>
    /\ UNCHANGED udpOutVars

\* udpSession.ReadPacket called by the handler of the session: case packet := <-s.in
ReadPacket(i) ==
    /\ sessionList[i].state = "running"
    /\ sessionList[i].in # <<>>
    /\ sessionList' =
         [sessionList EXCEPT ![i].delivered = Append(@, Head(sessionList[i].in)),
                             ![i].in = Tail(@)]
    /\ UNCHANGED <<udpReceived, udpSocket, readPacket, mgrIn, sessions,
                   dispatchPC, dispatchPacket, dispatchTo, dispatchDropped>>
    /\ UNCHANGED <<udpOutVars, udpCtlVars>>

\* udpSession.WritePacket called by the handler of the session with a packet
\* of any address: packet.Addr = s.addr, then case s.mgr.out <- packet
WritePacket(i, a) ==
    /\ sessionList[i].state = "running"
    /\ Len(mgrOut) < ManagerCap
    /\ mgrOut' = Enqueue(mgrOut, RewriteAddr([addr |-> a, id |-> i], sessionList[i]))
    /\ UNCHANGED writePacket
    /\ UNCHANGED <<udpInVars, udpCtlVars>>

\* write: case packet = <-mgr.out
WriteTakes ==
    /\ Running("write")
    /\ writePacket = NoPacket
    /\ mgrOut # <<>>
    /\ writePacket' = Head(mgrOut)
    /\ mgrOut' = Tail(mgrOut)
    /\ UNCHANGED <<udpInVars, udpCtlVars>>

\* write: mgr.conn.WriteToUDP(packet.Payload, packet.Addr) sends the packet
WriteToUDP ==
    /\ Running("write")
    /\ writePacket # NoPacket
    /\ writePacket' = NoPacket
    /\ UNCHANGED mgrOut
    /\ UNCHANGED <<udpInVars, udpCtlVars>>

\* write: WriteToUDP returns an error, of the deadline that
\* context.AfterFunc(ctx, func() { _ = mgr.conn.SetWriteDeadline(time.Now()) })
\* set or of the socket, and the loop returns
WriteToUDPFails ==
    /\ Running("write")
    /\ writePacket # NoPacket
    /\ writePacket' = NoPacket
    /\ \E e \in {errIO} \cup (IF ectxDone THEN {errDeadlineExceeded} ELSE {}) :
         LoopReturns("write", SocketError(udpCause, errWriteUDP(e)))
    /\ UNCHANGED mgrOut
    /\ UNCHANGED udpInVars

\* write: case <-ctx.Done(): dropAll(mgr.out), return context.Cause(ctx)
WriteCancelled ==
    /\ Running("write")
    /\ writePacket = NoPacket
    /\ ectxDone
    /\ mgrOut' = <<>>
    /\ LoopReturns("write", udpCause)
    /\ UNCHANGED writePacket
    /\ UNCHANGED udpInVars

\* s.run returns: the handler of the session has returned e, which the
\* goroutine of the session discards before it offers the session on stopped
SessionStops(i, e) ==
    /\ sessionList[i].state = "running"
    /\ sessionList' = [sessionList EXCEPT ![i].state = "stopped", ![i].result = e]
    /\ udpCause' = CauseAfterHandler(udpCause, e)
    /\ UNCHANGED <<udpReceived, udpSocket, readPacket, mgrIn, sessions,
                   dispatchPC, dispatchPacket, dispatchTo, dispatchDropped>>
    /\ UNCHANGED <<udpOutVars, udpCtx, udpLoop, udpLoopErr, egErr, udpRun, udpRunErr>>

\* dispatch: case s := <-stopped: delete(sessions, s.addr) and dropAll(s.in)
DispatchStopped(i) ==
    /\ dispatchPC = "select"
    /\ sessionList[i].state = "stopped"
    /\ sessions' = DeleteSession(sessions, sessionList[i].addr)
    /\ sessionList' =
         [sessionList EXCEPT ![i].state = "removed",
                             ![i].dropped = @ + Len(sessionList[i].in),
                             ![i].in = <<>>]
    /\ UNCHANGED <<udpReceived, udpSocket, readPacket, mgrIn, dispatchPC,
                   dispatchPacket, dispatchTo, dispatchDropped>>
    /\ UNCHANGED <<udpOutVars, udpCtlVars>>

\* run: err := eg.Wait() returns when the three loops have returned
RunReturns ==
    /\ udpRun = "running"
    /\ \A l \in Loops : ~Running(l)
    /\ udpRun' = "returned"
    /\ udpRunErr' = egErr
    /\ UNCHANGED <<udpInVars, udpOutVars, udpCtx, udpCause, udpLoop, udpLoopErr, egErr>>

(***************************************************************************)
(* The capsule codec of the UDP tunnels: a datagram travels as an HTTP     *)
(* capsule of type 0 whose value is the context ID 0 and the payload.      *)
(***************************************************************************)
\* capsules written to one stream
MaxCapsules == 2
\* length of the short payloads
MaxPacketLen == 2

\* values a byte of a payload takes: 64, 128 and 192 would start a longer
\* varint if they were read as one
ByteValues == {0, 64, 255}

\* a payload long enough for the length of its capsule to need two bytes
LongPayload == [k \in 1..63 |-> 255]

Payloads ==
    UNION {[1..n -> ByteValues] : n \in 0..MaxPacketLen} \cup {LongPayload}

\* quicvarint.Append(nil, n), for the n below 2^31 that lengths take here
QuicVarintAppend(n) ==
    IF n < 64 THEN <<n>>
    ELSE IF n < 16384 THEN <<64 + (n \div 256), n % 256>>
    ELSE IF n < 1073741824
         THEN <<128 + (n \div 16777216), (n \div 65536) % 256, (n \div 256) % 256, n % 256>>
    ELSE <<192, 0, 0, 0,
           (n \div 16777216) % 256, (n \div 65536) % 256, (n \div 256) % 256,
           n % 256>>

\* the bytes b[1..n] as a big-endian number
RECURSIVE BigEndian(_, _)
BigEndian(b, n) == IF n = 0 THEN 0 ELSE BigEndian(b, n - 1) * 256 + b[n]

\* the length in bytes of the varint that starts with byte b
QuicVarintLen(b) ==
    IF b < 64 THEN 1 ELSE IF b < 128 THEN 2 ELSE IF b < 192 THEN 4 ELSE 8

\* quicvarint.Read(r): the value, the bytes left in r, and whether r had
\* the whole varint
QuicVarintRead(bytes) ==
    IF bytes = <<>> \/ Len(bytes) < QuicVarintLen(bytes[1])
    THEN [ok |-> FALSE, value |-> 0, rest |-> <<>>]
    ELSE LET n == QuicVarintLen(bytes[1])
             digits == [k \in 1..n |-> IF k = 1 THEN bytes[1] % 64 ELSE bytes[k]]
         IN  [ok |-> TRUE, value |-> BigEndian(digits, n),
              rest |-> SubSeq(bytes, n + 1, Len(bytes))]

\* http3.WriteCapsule(dst, ct, value): the type, the length and the value
WriteCapsule(ct, value) ==
    QuicVarintAppend(ct) \o QuicVarintAppend(Len(value)) \o value

\* http3.ParseCapsule(src): the type, the value that a reader limited to the
\* length gives, and the bytes left in src behind the capsule
ParseCapsule(bytes) ==
    LET ct == QuicVarintRead(bytes)
        length == QuicVarintRead(ct.rest)
    IN  IF ~ct.ok \/ ~length.ok
        THEN [ok |-> FALSE, type |-> 0, value |-> <<>>, rest |-> <<>>]
        ELSE [ok |-> Len(length.rest) >= length.value,
              type |-> ct.value,
              value |-> SubSeq(length.rest, 1, Min(length.value, Len(length.rest))),
              rest |-> SubSeq(length.rest, length.value + 1, Len(length.rest))]

\* var contextID = quicvarint.Append(nil, 0)
contextID == QuicVarintAppend(0)

\* writeUDPCapsuleDatagram(dst, packet): the bytes written to dst
writeUDPCapsuleDatagram(packet) == WriteCapsule(0, contextID \o packet)

\* a plausible slip: the context ID is left on the payload
readUDPCapsuleDatagramWhole(bytes) ==
    LET capsule == ParseCapsule(bytes)
    IN  [err |-> IF capsule.ok THEN NilErr ELSE errIO,
         payload |-> IF capsule.ok THEN capsule.value ELSE <<>>,
         rest |-> capsule.rest]

\* readUDPCapsuleDatagram(src): the payload, the error, and the bytes left in src
readUDPCapsuleDatagram(bytes) ==
    LET capsule == ParseCapsule(bytes)
        id == QuicVarintRead(capsule.value)
    IN  IF capsule.ok /\ id.ok
        THEN [err |-> NilErr, payload |-> id.rest, rest |-> capsule.rest]
        ELSE [err |-> errIO, payload |-> <<>>, rest |-> capsule.rest]

VARIABLES
    capPC,       \* "off" or "streaming"
    capStream,   \* the bytes written to the stream and not yet read
    capWritten,  \* the payloads given to writeUDPCapsuleDatagram, in order
    capRead,     \* the payloads readUDPCapsuleDatagram returned, in order
    capErr       \* the error readUDPCapsuleDatagram returned last

capVars == <<capPC, capStream, capWritten, capRead, capErr>>

\* no stream of capsules is in use
CapsuleOff ==
    /\ capPC = "off"
    /\ capStream = <<>>
    /\ capWritten = <<>>
    /\ capRead = <<>>
    /\ capErr = NilErr

\* a stream between streamFromUDPPacketReaderToCapsuleDatagrams on one end
\* and streamFromCapsuleDatagramsToUDPPacketWriter on the other
InitCapsule ==
    /\ capPC = "streaming"
    /\ capStream = <<>>
    /\ capWritten = <<>>
    /\ capRead = <<>>
    /\ capErr = NilErr

\* streamFromUDPPacketReaderToCapsuleDatagrams: writeUDPCapsuleDatagram(bw,
\* packet.Payload) and bw.Flush()
WriteDatagram(packet) ==
    /\ capPC = "streaming"
    /\ Len(capWritten) < MaxCapsules
    /\ capStream' = capStream \o writeUDPCapsuleDatagram(packet)
    /\ capWritten' = Append(capWritten, packet)
    /\ UNCHANGED <<capPC, capRead, capErr>>

\* streamFromCapsuleDatagramsToUDPPacketWriter: readUDPCapsuleDatagram(br),
\* then dst.WritePacket with the payload
ReadDatagram ==
    /\ capPC = "streaming"
    /\ capStream # <<>>
    /\ capErr = NilErr
    /\ LET read == readUDPCapsuleDatagram(capStream) IN
         /\ capErr' = read.err
         /\ capStream' = read.rest
         /\ capRead' = IF read.err = NilErr THEN Append(capRead, read.payload) ELSE capRead
    /\ UNCHANGED <<capPC, capWritten>>

(***************************************************************************)
(* The forwarding phase of TunnelUDP, from OnConnected to the return: the  *)
(* loops of the errgroup of the HTTP/1.1 and of the HTTP/3 tunneler.       *)
(***************************************************************************)
\* packets the local side hands to the tunnel during one attempt
MaxLocalPackets == 2

\* the functions given to eg.Go
ForwardLoops(p) ==
    IF p = "http3" THEN {"skipCapsules", "readLocal", "readRemote"}
    ELSE {"fromRemote", "fromLocal"}

AllForwardLoops == ForwardLoops("http1") \cup ForwardLoops("http3")

\* the loops that wait for a packet of the local side
LocalReaders == {"readLocal", "fromLocal"}

\* the context a loop is given: ectx of errgroup.WithContext(ctx), or the
\* ctx of the caller
LoopContext(loop) ==
    IF loop \in {"readLocal", "readRemote"} THEN "ctx" ELSE "ectx"

\* what ends a read of the remote side that is under way, apart from the
\* remote side itself: ReceiveDatagram(ctx) of readRemote, str.CancelRead by
\* context.AfterFunc(ectx) of skipCapsules, remote.Close by
\* context.AfterFunc(ctx) of the HTTP/1.1 tunneler
RemoteReadEndedBy(loop) ==
    IF loop = "skipCapsules" THEN "ectx" ELSE "ctx"

\* the errors of the loops
errLocalRead(e) == Wrapf("http/3: error reading packet from local udp connection", e)
errSendDatagram == Wrapf("http/3: error sending datagram", errNet)
errReceiveDatagram(e) == Wrapf("http/3: error reading datagram", e)
errParseContextID == Wrapf("http/3: error parsing datagram context id", errIO)
errParseCapsule(e) == Wrapf("error parsing http3 capsule", e)

VARIABLES
    fwProto,        \* the tunneler: "http1" or "http3"
    fwPC,           \* "off", "connected" (the loops run) or "returned"
    fwCtxDone,      \* the ctx of the caller of TunnelUDP is done
    fwCause,        \* context.Cause(ectx), NilErr while ectx is not done
    fwLoop,         \* each loop: "none", "running" or "returned"
    fwLoopErr,      \* what each loop returned
    fwEgErr,        \* the first error a loop returned to the errgroup
    fwResult,       \* what TunnelUDP returned
    fwDisconnected, \* the errors OnDisconnected was emitted with, in order
    fwArrived,      \* packets the local side has handed over so far
    fwLocal,        \* packets of the local side waiting for ReadPacket
    fwHeld,         \* the local reader holds a packet for the remote side
    fwRemote        \* the connection to the proxy: "open" or "broken"

fwVars ==
    <<fwProto, fwPC, fwCtxDone, fwCause, fwLoop, fwLoopErr, fwEgErr, fwResult,
      fwDisconnected, fwArrived, fwLocal, fwHeld, fwRemote>>

\* no TunnelUDP is in its forwarding phase
ForwardOff ==
    /\ fwProto = "none"
    /\ fwPC = "off"
    /\ fwCtxDone = FALSE
    /\ fwCause = NilErr
    /\ fwLoop = [l \in AllForwardLoops |-> "none"]
    /\ fwLoopErr = [l \in AllForwardLoops |-> NilErr]
    /\ fwEgErr = NilErr
    /\ fwResult = NilErr
    /\ fwDisconnected = <<>>
    /\ fwArrived = 0
    /\ fwLocal = 0
    /\ fwHeld = FALSE
    /\ fwRemote = "open"

\* eventSink.OnConnected(ctx), errgroup.WithContext(ctx) and the eg.Go calls
InitForward ==
    /\ fwProto \in {"http1", "http3"}
    /\ fwPC = "connected"
    /\ fwCtxDone = FALSE
    /\ fwCause = NilErr
    /\ fwLoop = [l \in AllForwardLoops |->
                    IF l \in ForwardLoops(fwProto) THEN "running" ELSE "none"]
    /\ fwLoopErr = [l \in AllForwardLoops |-> NilErr]
    /\ fwEgErr = NilErr
    /\ fwResult = NilErr
    /\ fwDisconnected = <<>>
    /\ fwArrived = 0
    /\ fwLocal = 0
    /\ fwHeld = FALSE
    /\ fwRemote = "open"

\* ctx.Done() of the context a loop was given is closed
LoopContextDone(which) == IF which = "ctx" THEN fwCtxDone ELSE fwCause # NilErr

\* context.Cause(ctx) of the context a loop was given
LoopContextCause(which) ==
    IF which = "ectx" \/ fwCause # NilErr THEN fwCause ELSE errCanceled

\* a function of the errgroup returns e: the first non-nil error is kept and
\* cancels ectx
ForwardLoopReturns(loop, e) ==
    /\ fwLoop' = [fwLoop EXCEPT ![loop] = "returned"]
    /\ fwLoopErr' = [fwLoopErr EXCEPT ![loop] = e]
    /\ fwEgErr' = IF fwEgErr = NilErr THEN e ELSE fwEgErr
    /\ fwCause' = IF fwCause = NilErr THEN e ELSE fwCause
    /\ UNCHANGED <<fwProto, fwPC, fwCtxDone, fwResult, fwDisconnected, fwRemote>>

\* the local side hands a packet to the tunnel
LocalPacketArrives ==
    /\ fwPC = "connected"
    /\ fwArrived < MaxLocalPackets
    /\ fwArrived' = fwArrived + 1
    /\ fwLocal' = fwLocal + 1
    /\ UNCHANGED <<fwProto, fwPC, fwCtxDone, fwCause, fwLoop, fwLoopErr, fwEgErr,
                   fwResult, fwDisconnected, fwHeld, fwRemote>>

\* the caller of TunnelUDP cancels ctx, or its deadline passes
CallerCancels ==
    /\ fwPC = "connected"
    /\ ~fwCtxDone
    /\ fwCtxDone' = TRUE
    /\ fwCause' = IF fwCause = NilErr THEN errCanceled ELSE fwCause
    /\ UNCHANGED <<fwProto, fwPC, fwLoop, fwLoopErr, fwEgErr, fwResult,
                   fwDisconnected, fwArrived, fwLocal, fwHeld, fwRemote>>

\* the connection to the proxy breaks
RemoteBreaks ==
    /\ fwPC = "connected"
    /\ fwRemote = "open"
    /\ fwRemote' = "broken"
    /\ UNCHANGED <<fwProto, fwPC, fwCtxDone, fwCause, fwLoop, fwLoopErr, fwEgErr,
                   fwResult, fwDisconnected, fwArrived, fwLocal, fwHeld>>

\* readLocal, streamFromUDPDatagramReaderToCapsuleDatagrams: src.ReadPacket
\* returns a packet
LocalReaderTakes(loop) ==
    /\ loop \in LocalReaders
    /\ fwLoop[loop] = "running"
    /\ ~fwHeld
    /\ fwLocal > 0
    /\ fwLocal' = fwLocal - 1
    /\ fwHeld' = TRUE
    /\ UNCHANGED <<fwProto, fwPC, fwCtxDone, fwCause, fwLoop, fwLoopErr, fwEgErr,
                   fwResult, fwDisconnected, fwArrived, fwRemote>>

\* the same: src.ReadPacket returns the cause of the context the loop was given
LocalReaderCancelled(loop) ==
    /\ loop \in LocalReaders
    /\ fwLoop[loop] = "running"
    /\ ~fwHeld
    /\ LoopContextDone(LoopContext(loop))
    /\ ForwardLoopReturns(loop, errLocalRead(LoopContextCause(LoopContext(loop))))
    /\ UNCHANGED <<fwArrived, fwLocal, fwHeld>>

\* the same: dst.SendDatagram, or the write of the capsule to remote, which
\* fails when the connection is broken
LocalReaderSends(loop) ==
    /\ loop \in LocalReaders
    /\ fwLoop[loop] = "running"
    /\ fwHeld
    /\ fwHeld' = FALSE
    /\ IF fwRemote = "broken"
       THEN ForwardLoopReturns(loop, errSendDatagram)
       ELSE UNCHANGED <<fwProto, fwPC, fwCtxDone, fwCause, fwLoop, fwLoopErr,
                        fwEgErr, fwResult, fwDisconnected, fwRemote>>
    /\ UNCHANGED <<fwArrived, fwLocal>>

\* readRemote, skipCapsules, streamFromCapsuleDatagramsToUDPDatagramWriter:
\* the read of the remote side fails, because the connection is broken or
\* because the read was ended for the loop
RemoteReaderFails(loop) ==
    /\ loop \notin LocalReaders
    /\ fwLoop[loop] = "running"
    /\ \/ fwRemote = "broken"
       \/ LoopContextDone(RemoteReadEndedBy(loop))
    /\ ForwardLoopReturns(loop,
           IF loop = "skipCapsules" THEN errParseCapsule(errNet)
           ELSE errReceiveDatagram(errNet))
    /\ UNCHANGED <<fwArrived, fwLocal, fwHeld>>

\* the same: the remote side sends what the loop cannot parse (the context
\* ID of a datagram, a capsule)
RemoteReaderRejects(loop) ==
    /\ loop \notin LocalReaders
    /\ fwLoop[loop] = "running"
    /\ fwRemote = "open"
    /\ ForwardLoopReturns(loop,
           IF loop = "skipCapsules" THEN errParseCapsule(errIO)
           ELSE errParseContextID)
    /\ UNCHANGED <<fwArrived, fwLocal, fwHeld>>

\* err = eg.Wait(); eventSink.OnDisconnected(ctx, err); return err
ForwardWaitReturns ==
    /\ fwPC = "connected"
    /\ \A l \in ForwardLoops(fwProto) : fwLoop[l] = "returned"
    /\ fwPC' = "returned"
    /\ fwResult' = fwEgErr
    /\ fwDisconnected' = Append(fwDisconnected, fwEgErr)
    /\ UNCHANGED <<fwProto, fwCtxDone, fwCause, fwLoop, fwLoopErr, fwEgErr,
                   fwArrived, fwLocal, fwHeld, fwRemote>>

(***************************************************************************)
(* ParseURLs.  A string is a sequence of tokens: a scheme name, a host     *)
(* name, a port, an IPv6 address, or one of the separators "://", ":",     *)
(* "/", "[", "]", "tcp+", "udp+".                                          *)
(***************************************************************************)
\* the tokens in which strings.Contains(s, ":") finds a colon
ColonTokens == {":", "::1", "://"}

\* the tokens that begin with a digit, which cannot begin a scheme
DigitTokens == {"10.0.0.1", "6379", "8443"}

\* strings.Contains(s, ":")
HasColon(s) == \E k \in 1..Len(s) : s[k] \in ColonTokens

\* strings.Index(s, t) for a token t, counted from 1, 0 when absent
IndexOf(s, t) ==
    IF \E k \in 1..Len(s) : s[k] = t
    THEN CHOOSE k \in 1..Len(s) : s[k] = t /\ \A l \in 1..(k - 1) : s[l] # t
    ELSE 0

\* the place of the token that holds the last colon of s, 0 when there is none
LastColon(s) ==
    IF HasColon(s)
    THEN CHOOSE k \in 1..Len(s) :
             s[k] \in ColonTokens /\ \A l \in (k + 1)..Len(s) : s[l] \notin ColonTokens
    ELSE 0

\* strings.TrimPrefix(s, t) for a token t
TrimPrefix(s, t) == IF s # <<>> /\ s[1] = t THEN Tail(s) ELSE s

\* net.SplitHostPort(hostport)
SplitHostPort(hostport) ==
    LET i == LastColon(hostport)
        end == IndexOf(hostport, "]")
        failed == [ok |-> FALSE, host |-> <<>>, port |-> <<>>]
    IN  IF i = 0 THEN failed
        ELSE IF hostport[1] = "["
        THEN IF end = 0 \/ end = Len(hostport) \/ end + 1 # i \/ hostport[i] # ":"
             THEN failed
             ELSE [ok |-> TRUE, host |-> SubSeq(hostport, 2, end - 1),
                   port |-> SubSeq(hostport, i + 1, Len(hostport))]
        ELSE IF hostport[i] # ":" \/ HasColon(SubSeq(hostport, 1, i - 1))
             THEN failed
             ELSE [ok |-> TRUE, host |-> SubSeq(hostport, 1, i - 1),
                   port |-> SubSeq(hostport, i + 1, Len(hostport))]

\* net.JoinHostPort(host, port)
JoinHostPort(host, port) ==
    IF HasColon(host) THEN <<"[">> \o host \o <<"]", ":">> \o port
    ELSE host \o <<":">> \o port

\* url.Parse(rawURL): whether it succeeds, and the Scheme, the Host and the
\* Path of the URL
urlParse(rawURL) ==
    LET k == IndexOf(rawURL, "://")
        rest == SubSeq(rawURL, k + 1, Len(rawURL))
        slash == IndexOf(rest, "/")
        failed == [ok |-> FALSE, scheme |-> <<>>, host |-> <<>>, path |-> <<>>]
    IN  IF k = 1 THEN failed
        ELSE IF k > 1
        THEN [ok |-> TRUE, scheme |-> SubSeq(rawURL, 1, k - 1),
              host |-> IF slash = 0 THEN rest ELSE SubSeq(rest, 1, slash - 1),
              path |-> IF slash = 0 THEN <<>> ELSE SubSeq(rest, slash, Len(rest))]
        ELSE IF Len(rawURL) >= 2 /\ rawURL[2] = ":" /\ rawURL[1] \notin DigitTokens
                  /\ rawURL[1] \notin ColonTokens
        THEN [ok |-> TRUE, scheme |-> <<rawURL[1]>>, host |-> <<>>, path |-> <<>>]
        ELSE IF HasColon(rawURL) THEN failed
        ELSE [ok |-> TRUE, scheme |-> <<>>, host |-> <<>>, path |-> rawURL]

\* URL.Hostname(): the Host without the port and without the brackets
Hostname(host) ==
    IF host # <<>> /\ host[1] = "["
    THEN IF IndexOf(host, "]") = 0 THEN Tail(host)
         ELSE SubSeq(host, 2, IndexOf(host, "]") - 1)
    ELSE IF LastColon(host) = 0 THEN host
    ELSE SubSeq(host, 1, LastColon(host) - 1)

\* strings.Split(path, "/")[1:]: the segments behind the first one
PathSegments(path) ==
    LET slashes == {k \in 1..Len(path) : path[k] = "/"}
    IN  [n \in 1..Cardinality(slashes) |->
            LET from == CHOOSE k \in slashes :
                            Cardinality({l \in slashes : l < k}) = n - 1
                later == {l \in slashes : l > from}
                to == IF later = {} THEN Len(path) + 1
                      ELSE CHOOSE l \in later : \A m \in later : l <= m
            IN  SubSeq(path, from + 1, to - 1)]

\* a *url.URL, nil when isNil
NilURL == [isNil |-> TRUE, scheme |-> <<>>, host |-> <<>>, path |-> <<>>]

URL(scheme, host, path) ==
    [isNil |-> FALSE, scheme |-> scheme, host |-> host, path |-> path]

errInvalidDestination == Errorf("invalid destination")
errInvalidPomeriumURL == Errorf("invalid pomerium url")

\* ParseURLs: the part that derives the address and a proxy URL from the
\* destination
FromDestination(destination) ==
    LET destinationURL == urlParse(destination)
        paths == PathSegments(destinationURL.path)
        scheme == TrimPrefix(TrimPrefix(destinationURL.scheme, "tcp+"), "udp+")
        hp == SplitHostPort(destination)
        failed == [destinationAddr |-> <<>>, proxyURL |-> NilURL,
                   err |-> errInvalidDestination]
    IN  IF IndexOf(destination, "://") # 0
        THEN IF ~destinationURL.ok THEN failed
             ELSE IF Len(paths) = 0
             THEN [destinationAddr |-> destinationURL.host,
                   proxyURL |-> URL(scheme, Hostname(destinationURL.host), <<>>),
                   err |-> NilErr]
             ELSE [destinationAddr |-> paths[1],
                   proxyURL |-> URL(scheme, destinationURL.host, <<>>),
                   err |-> NilErr]
        ELSE IF hp.ok
        THEN [destinationAddr |-> JoinHostPort(hp.host, hp.port),
              proxyURL |-> URL(<<"https">>, hp.host, <<>>),
              err |-> NilErr]
        ELSE failed

\* ParseURLs: the default port of a proxy URL whose Host holds no colon
WithDefaultPort(proxyURL) ==
    IF HasColon(proxyURL.host) THEN proxyURL
    ELSE IF proxyURL.scheme = <<"https">>
         THEN [proxyURL EXCEPT !.host = JoinHostPort(proxyURL.host, <<"443">>)]
         ELSE [proxyURL EXCEPT !.host = JoinHostPort(proxyURL.host, <<"80">>)]

\* a plausible slip: the proxy derived from the destination is kept when the
\* explicit one has no host
ParseURLsLenient(destination, pomeriumURL) ==
    LET derived == FromDestination(destination)
        explicit == urlParse(pomeriumURL)
    IN  IF derived.err # NilErr THEN derived
        ELSE IF pomeriumURL # <<>> /\ explicit.ok /\ explicit.host # <<>>
        THEN [derived EXCEPT !.proxyURL =
                  WithDefaultPort(URL(explicit.scheme, explicit.host, explicit.path))]
        ELSE [derived EXCEPT !.proxyURL = WithDefaultPort(derived.proxyURL)]

\* a plausible slip: the address found so far is returned with the error
ParseURLsKeepingAddr(destination, pomeriumURL) ==
    LET derived == FromDestination(destination)
        explicit == urlParse(pomeriumURL)
    IN  IF derived.err # NilErr THEN derived
        ELSE IF pomeriumURL # <<>>
        THEN IF ~explicit.ok \/ explicit.host = <<>>
             THEN [derived EXCEPT !.proxyURL = NilURL, !.err = errInvalidPomeriumURL]
             ELSE [derived EXCEPT !.proxyURL =
                       WithDefaultPort(URL(explicit.scheme, explicit.host, explicit.path))]
        ELSE [derived EXCEPT !.proxyURL = WithDefaultPort(derived.proxyURL)]

\* ParseURLs(destination, pomeriumURL)
ParseURLs(destination, pomeriumURL) ==
    LET derived == FromDestination(destination)
        explicit == urlParse(pomeriumURL)
    IN  IF derived.err # NilErr THEN derived
        ELSE IF pomeriumURL # <<>>
        THEN IF ~explicit.ok \/ explicit.host = <<>>
             THEN [destinationAddr |-> <<>>, proxyURL |-> NilURL,
                   err |-> errInvalidPomeriumURL]
             ELSE [derived EXCEPT !.proxyURL =
                       WithDefaultPort(URL(explicit.scheme, explicit.host, explicit.path))]
        ELSE [derived EXCEPT !.proxyURL = WithDefaultPort(derived.proxyURL)]

\* hosts and ports of the inputs
HostNames == {<<"redis.example.com">>, <<"10.0.0.1">>}
IPv6Hosts == {<<"[", "::1", "]">>}
Ports == {<<"6379">>, <<"8443">>}
Schemes == {<<"https">>, <<"http">>, <<"tcp+", "https">>, <<"udp+", "https">>, <<"tcp+", "http">>}

\* host:port destinations that net.SplitHostPort and net.JoinHostPort give back
HostPortDestinations ==
    {h \o <<":">> \o p : h \in HostNames \cup IPv6Hosts, p \in Ports}

\* destinations in URL form, without a path and with the address as the path
URLDestinations ==
    {s \o <<"://">> \o h : s \in Schemes, h \in HostNames \cup HostPortDestinations}
        \cup {s \o <<"://">> \o h \o <<"/">> \o d :
                  s \in {<<"https">>, <<"tcp+", "https">>}, h \in {<<"proxy.example.com">>, <<"proxy.example.com", ":", "8443">>},
                  d \in {<<"redis.example.com", ":", "6379">>}}

\* destinations ParseURLs rejects
InvalidDestinations ==
    {<<>>, <<"redis.example.com">>, <<"::1", ":", "6379">>, <<"[", "::1", "]">>,
     <<"://", "redis.example.com">>}

Destinations == HostPortDestinations \cup URLDestinations \cup InvalidDestinations

\* explicit proxy strings: none, usable ones, and ones ParseURLs rejects
ProxyStrings ==
    {<<>>,
     <<"https", "://", "proxy.example.com">>,
     <<"https", "://", "proxy.example.com", ":", "8443">>,
     <<"http", "://", "proxy.example.com">>,
     <<"https", "://", "proxy.example.com", "/", "path">>,
     <<"proxy.example.com", ":", "8443">>,
     <<"10.0.0.1", ":", "8443">>,
     <<"proxy.example.com">>,
     <<"https", "://">>,
     <<"://", "proxy.example.com">>}

VARIABLES
    urlPC,           \* "off", "call" (ParseURLs is about to be called) or "done"
    urlDestination,  \* the destination argument
    urlPomerium,     \* the pomeriumURL argument
    urlResult        \* what ParseURLs returned

urlVars == <<urlPC, urlDestination, urlPomerium, urlResult>>

NoURLResult == [destinationAddr |-> <<>>, proxyURL |-> NilURL, err |-> NilErr]

\* ParseURLs is not in use
URLsOff ==
    /\ urlPC = "off"
    /\ urlDestination = <<>>
    /\ urlPomerium = <<>>
    /\ urlResult = NoURLResult

\* a caller has its two strings
InitURLs ==
    /\ urlPC = "call"
    /\ urlDestination \in Destinations
    /\ urlPomerium \in ProxyStrings
    /\ urlResult = NoURLResult

\* destinationAddr, proxyURL, err := ParseURLs(destination, pomeriumURL)
CallParseURLs ==
    /\ urlPC = "call"
    /\ urlResult' = ParseURLs(urlDestination, urlPomerium)
    /\ urlPC' = "done"
    /\ UNCHANGED <<urlDestination, urlPomerium>>

(***************************************************************************)
(* The listener server: Update (connect, disconnect) and Delete on the     *)
(* records of the configuration, the status of each record's listener,     *)
(* and the listening sockets with the contexts that close them.            *)
(***************************************************************************)
\* the sockets ever opened by one server
MaxListeners == 3

\* the calls of Update and Delete made on one server
MaxListenerCalls == 4

\* the connection ids of one request
MaxRequestIds == 2

\* the records: a TCP one listening on ":0", a TCP and a UDP one on fixed ports
IDs == {"tcp.any", "tcp.fixed", "udp.fixed"}

\* rec.GetConn().GetProtocol()
ProtocolOf(id) == IF id = "udp.fixed" THEN "udp" ELSE "tcp"

\* newTunnel: the listen address of the record
ListenAddrOf(id) ==
    CASE id = "tcp.any" -> ":0"
      [] id = "tcp.fixed" -> ":5000"
      [] OTHER -> ":6000"

\* the addresses the system gives a socket that asks for port 0
EphemeralAddrs == {":49152", ":49153"}

\* a nil *string
NoAddr == ""

errNotFound == NewError("not found")
errAlreadyListening == NewError("already listening")
errNotListening == NewError("not listening")
errListen == Errorf("listen: address already in use")

\* sequences of distinct ids, at most max of them
RequestIds(max) ==
    {ids \in UNION {[1..n -> IDs] : n \in 1..max} :
        \A i, j \in 1..Len(ids) : i # j => ids[i] # ids[j]}

\* the ListenerStatus entry of a record that is not listening
NotListening == [listening |-> FALSE, addr |-> NoAddr, cancel |-> 0]

\* a pb.ListenerStatus
ListenerStatusOf(listening, addr, lastError) ==
    [Listening |-> listening, ListenAddr |-> addr, LastError |-> lastError]

\* no entry of the response map
NoListener == ListenerStatusOf(FALSE, "<absent>", NilErr)

\* ListenerStatus.GetListenerStatus(id)
GetListenerStatus(status, id) ==
    ListenerStatusOf(status[id].listening, status[id].addr, NilErr)

\* the addresses bound by the open sockets of a protocol
BoundAddrs(sockets, protocol) ==
    {sockets[k].addr : k \in {l \in 1..Len(sockets) :
                                 sockets[l].open /\ sockets[l].protocol = protocol}}

\* lc.Listen, net.ListenUDP: the address bound, NoAddr when it fails
Listen(sockets, protocol, listenAddr, fails, any) ==
    LET free == EphemeralAddrs \ BoundAddrs(sockets, protocol)
    IN  IF fails THEN NoAddr
        ELSE IF listenAddr = ":0"
        THEN IF free = {} THEN NoAddr
             ELSE IF any \in free THEN any ELSE CHOOSE a \in free : TRUE
        ELSE IF listenAddr \in BoundAddrs(sockets, protocol) THEN NoAddr
        ELSE listenAddr

\* a socket, the context made for it, and whether something closes the
\* socket when the context is done
NewSocket(id, addr, ctx, closer) ==
    [id |-> id, protocol |-> ProtocolOf(id), addr |-> addr, ctx |-> ctx,
     open |-> TRUE, closer |-> closer]

\* a plausible slip: the TCP listener is not recorded either
connectTCPTunnelLockedUnrecorded(st, id, fails, any) ==
    LET bound == Listen(st.sockets, "tcp", ListenAddrOf(id), fails, any)
    IN  IF bound = NoAddr
        THEN [st EXCEPT !.listeners[id] = ListenerStatusOf(FALSE, NoAddr, errListen)]
        ELSE [st EXCEPT !.sockets = Append(@, NewSocket(id, bound, "live", TRUE)),
                        !.listeners[id] = ListenerStatusOf(TRUE, bound, NilErr)]

\* connectTCPTunnelLocked, and the entry connectLocked makes of its result
connectTCPTunnelLocked(st, id, fails, any) ==
    LET bound == Listen(st.sockets, "tcp", ListenAddrOf(id), fails, any)
        k == Len(st.sockets) + 1
    IN  IF bound = NoAddr
        THEN [st EXCEPT !.listeners[id] = ListenerStatusOf(FALSE, NoAddr, errListen)]
        ELSE IF st.status[id].listening
        THEN [st EXCEPT !.sockets = Append(@, NewSocket(id, bound, "cancelled", FALSE)),
                        !.listeners[id] =
                            ListenerStatusOf(FALSE, NoAddr, errAlreadyListening)]
        ELSE [st EXCEPT !.sockets = Append(@, NewSocket(id, bound, "live", TRUE)),
                        !.status[id] = [listening |-> TRUE, addr |-> bound, cancel |-> k],
                        !.listeners[id] = ListenerStatusOf(TRUE, bound, NilErr)]

\* connectUDPTunnelLocked, and the entry connectLocked makes of its result
connectUDPTunnelLocked(st, id, fails, any) ==
    LET bound == Listen(st.sockets, "udp", ListenAddrOf(id), fails, any)
    IN  IF bound = NoAddr
        THEN [st EXCEPT !.listeners[id] = ListenerStatusOf(FALSE, NoAddr, errListen)]
        ELSE [st EXCEPT !.sockets = Append(@, NewSocket(id, bound, "live", TRUE)),
                        !.listeners[id] = ListenerStatusOf(TRUE, ListenAddrOf(id), NilErr)]

\* connectTunnelLocked
connectTunnelLocked(st, id, fails, any) ==
    IF id \notin st.config
    THEN [st EXCEPT !.listeners[id] = ListenerStatusOf(FALSE, NoAddr, errNotFound)]
    ELSE IF ProtocolOf(id) = "udp" THEN connectUDPTunnelLocked(st, id, fails, any)
    ELSE connectTCPTunnelLocked(st, id, fails, any)

\* connectLocked
RECURSIVE connectLocked(_, _, _, _)
connectLocked(st, ids, fails, any) ==
    IF ids = <<>> THEN st
    ELSE LET id == Head(ids)
             next == IF st.status[id].listening
                     THEN [st EXCEPT !.listeners[id] = GetListenerStatus(st.status, id)]
                     ELSE connectTunnelLocked(st, id, fails, any)
         IN  connectLocked(next, Tail(ids), fails, any)

\* ListenerStatus.SetNotListening(id): the onUnlock function is called and the
\* status cleared; what it returns for a record that is not listening is e
SetNotListening(st, id, e) ==
    IF st.status[id].listening
    THEN [st |-> [st EXCEPT !.sockets[st.status[id].cancel].ctx = "cancelled",
                            !.status[id] = NotListening],
          err |-> NilErr]
    ELSE [st |-> st, err |-> e]

\* disconnectLocked
RECURSIVE disconnectLocked(_, _, _)
disconnectLocked(st, ids, e) ==
    IF ids = <<>> THEN st
    ELSE LET id == Head(ids)
             unset == SetNotListening(st, id, e)
             next == IF unset.err # NilErr
                     THEN [unset.st EXCEPT !.listeners[id] =
                               ListenerStatusOf(FALSE, NoAddr, unset.err)]
                     ELSE [unset.st EXCEPT !.listeners[id] =
                               GetListenerStatus(unset.st.status, id)]
         IN  disconnectLocked(next, Tail(ids), e)

VARIABLES
    lsPC,        \* "off" or "serving"
    lsConfig,    \* the ids of the records of the configuration (s.byID)
    lsStatus,    \* the ListenerStatus: for each id whether it listens, where, its cancel
    lsSockets,   \* the sockets opened, each with its context
    lsCalls,     \* the calls answered
    lsResponse,  \* the last call and its response
    lsClient     \* for each id the address the caller was last told it listens on

lsVars == <<lsPC, lsConfig, lsStatus, lsSockets, lsCalls, lsResponse, lsClient>>

NoListeners == [id \in IDs |-> NoListener]

NoResponse == [op |-> "none", ids |-> <<>>, listeners |-> NoListeners, err |-> NilErr]

\* the server state the locked functions work on
ServerState ==
    [config |-> lsConfig, status |-> lsStatus, sockets |-> lsSockets,
     listeners |-> NoListeners]

\* no listener server
ListenerOff ==
    /\ lsPC = "off"
    /\ lsConfig = {}
    /\ lsStatus = [id \in IDs |-> NotListening]
    /\ lsSockets = <<>>
    /\ lsCalls = 0
    /\ lsResponse = NoResponse
    /\ lsClient = [id \in IDs |-> NoAddr]

\* NewServer, and the records upserted
InitListener ==
    /\ lsPC = "serving"
    /\ lsConfig = IDs
    /\ lsStatus = [id \in IDs |-> NotListening]
    /\ lsSockets = <<>>
    /\ lsCalls = 0
    /\ lsResponse = NoResponse
    /\ lsClient = [id \in IDs |-> NoAddr]

InRequest(ids) == {ids[i] : i \in 1..Len(ids)}

\* Update with Connected = true
UpdateConnect(ids, fails, any) ==
    /\ lsPC = "serving"
    /\ lsCalls < MaxListenerCalls
    /\ Len(lsSockets) + Len(ids) <= MaxListeners
    /\ LET st == connectLocked(ServerState, ids, fails, any)
       IN  /\ lsStatus' = st.status
           /\ lsSockets' = st.sockets
           /\ lsResponse' = [op |-> "connect", ids |-> ids,
                             listeners |-> st.listeners, err |-> NilErr]
           /\ lsClient' = [id \in IDs |->
                              IF id \in InRequest(ids) /\ st.listeners[id].Listening
                                     /\ lsClient[id] = NoAddr
                              THEN st.listeners[id].ListenAddr ELSE lsClient[id]]
    /\ lsCalls' = lsCalls + 1
    /\ UNCHANGED <<lsPC, lsConfig>>

\* Update with Connected = false
UpdateDisconnect(ids, e) ==
    /\ lsPC = "serving"
    /\ lsCalls < MaxListenerCalls
    /\ LET st == disconnectLocked(ServerState, ids, e)
       IN  /\ lsStatus' = st.status
           /\ lsSockets' = st.sockets
           /\ lsResponse' = [op |-> "disconnect", ids |-> ids,
                             listeners |-> st.listeners, err |-> NilErr]
    /\ lsClient' = [id \in IDs |-> IF id \in InRequest(ids) THEN NoAddr ELSE lsClient[id]]
    /\ lsCalls' = lsCalls + 1
    /\ UNCHANGED <<lsPC, lsConfig>>

\* Delete with a selector that lists the records ids
Delete(ids, e) ==
    /\ lsPC = "serving"
    /\ lsCalls < MaxListenerCalls
    /\ InRequest(ids) \subseteq lsConfig
    /\ LET st == disconnectLocked(ServerState, ids, e)
       IN  /\ lsStatus' = st.status
           /\ lsSockets' = st.sockets
    /\ lsConfig' = lsConfig \ InRequest(ids)
    /\ lsResponse' = [op |-> "delete", ids |-> ids, listeners |-> NoListeners,
                      err |-> NilErr]
    /\ lsClient' = [id \in IDs |-> IF id \in InRequest(ids) THEN NoAddr ELSE lsClient[id]]
    /\ lsCalls' = lsCalls + 1
    /\ UNCHANGED lsPC

\* onContextCancel, and the function context.AfterFunc registers: the
\* context of socket k is done and the socket is closed
OnContextCancel(k) ==
    /\ lsPC = "serving"
    /\ k \in 1..Len(lsSockets)
    /\ lsSockets[k].ctx = "cancelled"
    /\ lsSockets[k].closer
    /\ lsSockets[k].open
    /\ lsSockets' = [lsSockets EXCEPT ![k].open = FALSE]
    /\ UNCHANGED <<lsPC, lsConfig, lsStatus, lsCalls, lsResponse, lsClient>>

\* the goroutine of connectUDPTunnelLocked: RunUDPSessionManager returns an
\* error of the socket and the deferred cancel runs
SessionManagerFails(k) ==
    /\ lsPC = "serving"
    /\ k \in 1..Len(lsSockets)
    /\ lsSockets[k].protocol = "udp"
    /\ lsSockets[k].ctx = "live"
    /\ lsSockets' = [lsSockets EXCEPT ![k].ctx = "cancelled"]
    /\ UNCHANGED <<lsPC, lsConfig, lsStatus, lsCalls, lsResponse, lsClient>>

(***************************************************************************)
(* The two ways dispatch hands a packet to a session: sendOrDrop(s.in,     *)
(* packet) in one revision of tunnel_udp.go, s.HandlePacket(ctx, packet)   *)
(* in the other.                                                           *)
(***************************************************************************)
\* packets the socket receives while both hand-overs are compared
MaxHandOverPackets == 2

\* newUDPSession of the revision with HandlePacket: in: make(chan UDPPacket, 1)
HandOverCap == 1

HandOvers == {"sendOrDrop", "HandlePacket"}

VARIABLES
    handOver        \* which of the two dispatch hands packets over with

hoVars == <<handOver>>

\* dispatch calls sendOrDrop(s.in, packet)
SendOrDropRevision == handOver = "sendOrDrop"

\* udpSession.HandlePacket: case s.in <- packet, which waits for room
HandlePacketSends(cap) ==
    /\ dispatchPC = "send"
    /\ Len(sessionList[dispatchTo].in) < cap
    /\ sessionList' =
         [sessionList EXCEPT ![dispatchTo].in = Enqueue(@, dispatchPacket),
                             ![dispatchTo].pushed = Append(@, dispatchPacket)]
    /\ dispatchPC' = "select"
    /\ UNCHANGED <<udpReceived, udpSocket, readPacket, mgrIn, sessions,
                   dispatchPacket, dispatchTo, dispatchDropped>>
    /\ UNCHANGED <<udpOutVars, udpCtlVars>>

\* udpSession.HandlePacket: case <-s.cancelCtx.Done(), once s.run has called
\* s.cancel(err); the packet is given up
HandlePacketSessionDone ==
    /\ dispatchPC = "send"
    /\ sessionList[dispatchTo].state # "running"
    /\ sessionList' = [sessionList EXCEPT ![dispatchTo].pushed = Append(@, dispatchPacket)]
    /\ dispatchPC' = "select"
    /\ UNCHANGED <<udpReceived, udpSocket, readPacket, mgrIn, sessions,
                   dispatchPacket, dispatchTo, dispatchDropped>>
    /\ UNCHANGED <<udpOutVars, udpCtlVars>>

\* dispatch of the revision with HandlePacket: case s := <-stopped:
\* delete(sessions, s.addr)
DispatchStoppedDeletes(i) ==
    /\ dispatchPC = "select"
    /\ sessionList[i].state = "stopped"
    /\ sessions' = DeleteSession(sessions, sessionList[i].addr)
    /\ sessionList' = [sessionList EXCEPT ![i].state = "removed"]
    /\ UNCHANGED <<udpReceived, udpSocket, readPacket, mgrIn, dispatchPC,
                   dispatchPacket, dispatchTo, dispatchDropped>>
    /\ UNCHANGED <<udpOutVars, udpCtlVars>>

\* what dispatch does between taking a packet from mgr.in and its next select
HandOver ==
    \/ (SendOrDropRevision /\ SendOrDropSend(RunSessionCap))
    \/ (SendOrDropRevision /\ SendOrDropEvict)
    \/ (~SendOrDropRevision /\ HandlePacketSends(HandOverCap))
    \/ (~SendOrDropRevision /\ HandlePacketSessionDone)

\* case s := <-stopped of either dispatch, for the i-th session created
Reclaim(i) ==
    /\ i \in 1..Len(sessionList)
    /\ \/ (SendOrDropRevision /\ DispatchStopped(i))
       \/ (~SendOrDropRevision /\ DispatchStoppedDeletes(i))

\* the handler of the i-th session, which has a packet waiting on s.in, calls
\* ReadPacket or returns
HandlerMoves(i) ==
    /\ i \in 1..Len(sessionList)
    /\ sessionList[i].in # <<>>
    /\ \/ ReadPacket(i)
       \/ \E e \in SessionResults : SessionStops(i, e)

(***************************************************************************)
(* tunnelAcceptLoop: the loop the listener server runs for each listener   *)
(* it has opened, and the serving tasks it starts.                         *)
(***************************************************************************)
\* calls of li.Accept in one loop
MaxAccepts == 3

\* the conn of a call of Accept that returned an error
NilConn == "<nil>"

\* what a call of Accept can return: a connection, an error whose Timeout()
\* is true, or another error
AcceptResults == {"conn", "timeout", "error"}

VARIABLES
    alPC,           \* "accept", "backoff" or "returned"; "off" when no loop runs
    alCtx,          \* the context of the listener: "live" or "cancelled"
    alStatus,       \* the statuses the loop has sent to the broadcaster
    alAccepts,      \* how many times Accept has returned
    alBackoffs,     \* NextBackOff calls since the last bo.Reset()
    alTasks,        \* the serving tasks started: conn and state
    alPanic         \* a task has dereferenced a nil conn

alVars == <<alPC, alCtx, alStatus, alAccepts, alBackoffs, alTasks, alPanic>>

\* no accept loop is running
AcceptLoopOff ==
    /\ alPC = "off"
    /\ alCtx = "off"
    /\ alStatus = <<>>
    /\ alAccepts = 0
    /\ alBackoffs = 0
    /\ alTasks = <<>>
    /\ alPanic = FALSE

\* evt.onListening(ctx), bo := backoff.NewExponentialBackOff()
InitAcceptLoop ==
    /\ alPC = "accept"
    /\ alCtx = "live"
    /\ alStatus = <<"LISTENING">>
    /\ alAccepts = 0
    /\ alBackoffs = 0
    /\ alTasks = <<>>
    /\ alPanic = FALSE

\* go func(conn net.Conn) { ... }(c)
StartTask(tasks, c) == Append(tasks, [conn |-> c, state |-> "started"])

\* c, err := li.Accept() returns, and the loop goes as far as its next wait.
\* The body of `if err != nil` returns when ctx.Err() is not nil and waits and
\* continues when the error is a timeout; for any other error it has neither
\* return nor continue, so the loop goes on to bo.Reset() and to the go
\* statement with the nil conn, as it does when err is nil
AcceptReturns(res) ==
    /\ alPC = "accept"
    /\ ~alPanic
    /\ alAccepts < MaxAccepts
    /\ alAccepts' = alAccepts + 1
    /\ IF res # "conn" /\ alCtx = "cancelled"
       THEN /\ alStatus' = Append(alStatus, "CLOSED")
            /\ alPC' = "returned"
            /\ UNCHANGED <<alBackoffs, alTasks>>
       ELSE IF res = "timeout"
       THEN /\ alPC' = "backoff"
            /\ alBackoffs' = alBackoffs + 1
            /\ UNCHANGED <<alStatus, alTasks>>
       ELSE /\ alBackoffs' = 0
            /\ alTasks' = StartTask(alTasks,
                                    IF res = "conn" THEN "conn" ELSE NilConn)
            /\ UNCHANGED <<alStatus, alPC>>
    /\ UNCHANGED <<alCtx, alPanic>>

\* case <-time.After(bo.NextBackOff()): continue
BackoffElapses ==
    /\ alPC = "backoff"
    /\ ~alPanic
    /\ alPC' = "accept"
    /\ UNCHANGED <<alCtx, alStatus, alAccepts, alBackoffs, alTasks, alPanic>>

\* case <-ctx.Done(): return
BackoffCancelled ==
    /\ alPC = "backoff"
    /\ ~alPanic
    /\ alCtx = "cancelled"
    /\ alPC' = "returned"
    /\ UNCHANGED <<alCtx, alStatus, alAccepts, alBackoffs, alTasks, alPanic>>

\* the listener server cancels the context of the listener
AcceptContextCancelled ==
    /\ alCtx = "live"
    /\ ~alPanic
    /\ alCtx' = "cancelled"
    /\ UNCHANGED <<alPC, alStatus, alAccepts, alBackoffs, alTasks, alPanic>>

\* the serving task runs: cEvt := evt.withPeer(conn) calls
\* conn.RemoteAddr(), which panics on a nil conn; otherwise tun.Run serves
\* the connection
TaskRuns(i) ==
    /\ ~alPanic
    /\ alTasks[i].state = "started"
    /\ IF alTasks[i].conn = NilConn
       THEN /\ alPanic' = TRUE
            /\ alTasks' = [alTasks EXCEPT ![i].state = "panicked"]
       ELSE /\ alTasks' = [alTasks EXCEPT ![i].state = "serving"]
            /\ UNCHANGED alPanic
    /\ UNCHANGED <<alPC, alCtx, alStatus, alAccepts, alBackoffs>>

\* tun.Run returns and the deferred conn.Close() runs
TaskEnds(i) ==
    /\ ~alPanic
    /\ alTasks[i].state = "serving"
    /\ alTasks' = [alTasks EXCEPT ![i].state = "ended"]
    /\ UNCHANGED <<alPC, alCtx, alStatus, alAccepts, alBackoffs, alPanic>>

(***************************************************************************)
(* Specifications.                                                         *)
(***************************************************************************)
vars ==
    <<cfgVars, runVars, ctxDone, tunnelVars, fbVars, dbVars, pkVars, udpVars,
      capVars, fwVars, urlVars, lsVars, hoVars, alVars>>

otherThanRun ==
    <<fbVars, dbVars, pkVars, udpVars, capVars, fwVars, urlVars, lsVars, hoVars,
      alVars>>
otherThanFallback ==
    <<cfgVars, runVars, ctxDone, tunnelVars, dbVars, pkVars, udpVars, capVars,
      fwVars, urlVars, lsVars, hoVars, alVars>>
otherThanDeBuffer ==
    <<cfgVars, runVars, ctxDone, tunnelVars, fbVars, pkVars, udpVars, capVars,
      fwVars, urlVars, lsVars, hoVars, alVars>>
otherThanPick ==
    <<cfgVars, runVars, ctxDone, tunnelVars, fbVars, dbVars, udpVars, capVars,
      fwVars, urlVars, lsVars, hoVars, alVars>>
otherThanUDP ==
    <<cfgVars, runVars, ctxDone, tunnelVars, fbVars, dbVars, pkVars, capVars,
      fwVars, urlVars, lsVars, hoVars, alVars>>
otherThanCapsule ==
    <<cfgVars, runVars, ctxDone, tunnelVars, fbVars, dbVars, pkVars, udpVars,
      fwVars, urlVars, lsVars, hoVars, alVars>>
otherThanForward ==
    <<cfgVars, runVars, ctxDone, tunnelVars, fbVars, dbVars, pkVars, udpVars,
      capVars, urlVars, lsVars, hoVars, alVars>>
otherThanURLs ==
    <<cfgVars, runVars, ctxDone, tunnelVars, fbVars, dbVars, pkVars, udpVars,
      capVars, fwVars, lsVars, hoVars, alVars>>
otherThanListener ==
    <<cfgVars, runVars, ctxDone, tunnelVars, fbVars, dbVars, pkVars, udpVars,
      capVars, fwVars, urlVars, hoVars, alVars>>
otherThanHandOver ==
    <<cfgVars, runVars, ctxDone, tunnelVars, fbVars, dbVars, pkVars, udpVars,
      capVars, fwVars, urlVars, lsVars, alVars>>
otherThanAcceptLoop ==
    <<cfgVars, runVars, ctxDone, tunnelVars, fbVars, dbVars, pkVars, udpVars,
      capVars, fwVars, urlVars, lsVars, hoVars>>

Init == InitRun /\ FallbackOff /\ DeBufferOff /\ PickOff /\ UDPOff /\ CapsuleOff /\ ForwardOff /\ URLsOff /\ ListenerOff /\ SendOrDropRevision /\ AcceptLoopOff

Next ==
    \/ (Load /\ UNCHANGED otherThanRun)
    \/ (CallHandler /\ UNCHANGED otherThanRun)
    \/ (FuncReturns /\ UNCHANGED otherThanRun)
    \/ (Dial /\ UNCHANGED otherThanRun)
    \/ (SendRequest /\ UNCHANGED otherThanRun)
    \/ (ReadResponse /\ UNCHANGED otherThanRun)
    \/ (ForwardToRemote /\ UNCHANGED otherThanRun)
    \/ (ForwardToLocal /\ UNCHANGED otherThanRun)
    \/ (CopyReturns /\ UNCHANGED otherThanRun)
    \/ (Disconnect /\ UNCHANGED otherThanRun)
    \/ (Cancel /\ UNCHANGED otherThanRun)
    \/ (HandlerReturns /\ UNCHANGED otherThanRun)
    \/ (Login /\ UNCHANGED otherThanRun)
    \/ (Store /\ UNCHANGED otherThanRun)
    \/ (Finish /\ UNCHANGED otherThanRun)

\* one run of Tunnel.runWithJWT with one tunneler
Spec == Init /\ [][Next]_vars

InitFallbackSpec == RunOff /\ InitFallback /\ DeBufferOff /\ PickOff /\ UDPOff /\ CapsuleOff /\ ForwardOff /\ URLsOff /\ ListenerOff /\ SendOrDropRevision /\ AcceptLoopOff

NextFallback ==
    \E c \in Callers :
        \/ (FallbackEnterAlone(c) /\ UNCHANGED otherThanFallback)
        \/ (FallbackLoop(c) /\ UNCHANGED otherThanFallback)
        \/ (FallbackTunnelReturns(c) /\ UNCHANGED otherThanFallback)

\* successive calls on one fallback tunneler
SpecFallback == InitFallbackSpec /\ [][NextFallback]_vars

NextFallbackOverlap ==
    \E c \in Callers :
        \/ (FallbackEnter(c) /\ UNCHANGED otherThanFallback)
        \/ (FallbackLoop(c) /\ UNCHANGED otherThanFallback)
        \/ (FallbackTunnelReturns(c) /\ UNCHANGED otherThanFallback)

\* calls of two callers on one fallback tunneler, which may overlap in time
SpecFallbackOverlap == InitFallbackSpec /\ [][NextFallbackOverlap]_vars

InitDeBufferSpec == RunOff /\ FallbackOff /\ InitDeBuffer /\ PickOff /\ UDPOff /\ CapsuleOff /\ ForwardOff /\ URLsOff /\ ListenerOff /\ SendOrDropRevision /\ AcceptLoopOff

NextDeBuffer ==
    \/ (SocketReceives /\ UNCHANGED otherThanDeBuffer)
    \/ (FillBuffer /\ UNCHANGED otherThanDeBuffer)
    \/ (ResponseRead /\ UNCHANGED otherThanDeBuffer)
    \/ (CopyToLocal /\ UNCHANGED otherThanDeBuffer)

\* the byte stream of one HTTP/1.1 TCP tunnel, from the proxy to the local side
SpecDeBuffer == InitDeBufferSpec /\ [][NextDeBuffer]_vars

InitPickSpec == RunOff /\ FallbackOff /\ DeBufferOff /\ InitPick /\ UDPOff /\ CapsuleOff /\ ForwardOff /\ URLsOff /\ ListenerOff /\ SendOrDropRevision /\ AcceptLoopOff

NextPick ==
    \E c \in Callers :
        \/ (RunStart(c) /\ UNCHANGED otherThanPick)
        \/ (Lock(c) /\ UNCHANGED otherThanPick)
        \/ (PickTCP(c) /\ UNCHANGED otherThanPick)
        \/ (Unlock(c) /\ UNCHANGED otherThanPick)
        \/ (SessionStart(c) /\ UNCHANGED otherThanPick)
        \/ (AttemptReturns(c) /\ UNCHANGED otherThanPick)

\* concurrent Run calls and UDP sessions on one Tunnel
SpecPick == InitPickSpec /\ [][NextPick]_vars

InitUDPSpec == RunOff /\ FallbackOff /\ DeBufferOff /\ PickOff /\ InitUDP /\ CapsuleOff /\ ForwardOff /\ URLsOff /\ ListenerOff /\ SendOrDropRevision /\ AcceptLoopOff

NextUDP ==
    \/ (PacketArrives(MaxPackets, Peers) /\ UNCHANGED otherThanUDP)
    \/ (ReadFromUDP /\ UNCHANGED otherThanUDP)
    \/ (ReadSends /\ UNCHANGED otherThanUDP)
    \/ (DispatchPacket /\ UNCHANGED otherThanUDP)
    \/ (SendOrDropSend(SessionCap) /\ UNCHANGED otherThanUDP)
    \/ (SendOrDropEvict /\ UNCHANGED otherThanUDP)
    \/ \E i \in 1..Len(sessionList) :
          \/ (ReadPacket(i) /\ UNCHANGED otherThanUDP)
          \/ \E e \in SessionResults : (SessionStops(i, e) /\ UNCHANGED otherThanUDP)
          \/ (DispatchStopped(i) /\ UNCHANGED otherThanUDP)

\* the inbound side of one UDP session manager whose context stays live
SpecUDP == InitUDPSpec /\ [][NextUDP]_vars

NextUDPRun ==
    \/ (CancelContext /\ UNCHANGED otherThanUDP)
    \/ (PacketArrives(MaxRunPackets, Peers) /\ UNCHANGED otherThanUDP)
    \/ (ReadFromUDP /\ UNCHANGED otherThanUDP)
    \/ (ReadFromUDPFails /\ UNCHANGED otherThanUDP)
    \/ (ReadDeadlineExceeded /\ UNCHANGED otherThanUDP)
    \/ (ReadSends /\ UNCHANGED otherThanUDP)
    \/ (ReadCancelled /\ UNCHANGED otherThanUDP)
    \/ (DispatchPacket /\ UNCHANGED otherThanUDP)
    \/ (SendOrDropSend(RunSessionCap) /\ UNCHANGED otherThanUDP)
    \/ (SendOrDropEvict /\ UNCHANGED otherThanUDP)
    \/ (DispatchCancelled /\ UNCHANGED otherThanUDP)
    \/ (WriteTakes /\ UNCHANGED otherThanUDP)
    \/ (WriteToUDP /\ UNCHANGED otherThanUDP)
    \/ (WriteToUDPFails /\ UNCHANGED otherThanUDP)
    \/ (WriteCancelled /\ UNCHANGED otherThanUDP)
    \/ (RunReturns /\ UNCHANGED otherThanUDP)
    \/ \E i \in 1..Len(sessionList) :
          \/ (ReadPacket(i) /\ UNCHANGED otherThanUDP)
          \/ \E a \in Peers : (WritePacket(i, a) /\ UNCHANGED otherThanUDP)
          \/ \E e \in SessionResults : (SessionStops(i, e) /\ UNCHANGED otherThanUDP)
          \/ (DispatchStopped(i) /\ UNCHANGED otherThanUDP)

\* one UDP session manager: run with its three loops, the sessions, the
\* cancellation of the context and the errors of the socket
SpecUDPRun == InitUDPSpec /\ [][NextUDPRun]_vars

NextUDPShutdown ==
    \/ (CancelContext /\ UNCHANGED otherThanUDP)
    \/ (PacketArrives(MaxRunPackets, {"peer.a"}) /\ UNCHANGED otherThanUDP)
    \/ (ReadFromUDP /\ UNCHANGED otherThanUDP)
    \/ (ReadFromUDPFails /\ UNCHANGED otherThanUDP)
    \/ (ReadDeadlineExceeded /\ UNCHANGED otherThanUDP)
    \/ (ReadSends /\ UNCHANGED otherThanUDP)
    \/ (ReadCancelled /\ UNCHANGED otherThanUDP)
    \/ (DispatchPacket /\ UNCHANGED otherThanUDP)
    \/ (SendOrDropSend(RunSessionCap) /\ UNCHANGED otherThanUDP)
    \/ (SendOrDropEvict /\ UNCHANGED otherThanUDP)
    \/ (DispatchCancelled /\ UNCHANGED otherThanUDP)
    \/ (WriteTakes /\ UNCHANGED otherThanUDP)
    \/ (WriteToUDP /\ UNCHANGED otherThanUDP)
    \/ (WriteToUDPFails /\ UNCHANGED otherThanUDP)
    \/ (WriteCancelled /\ UNCHANGED otherThanUDP)
    \/ (RunReturns /\ UNCHANGED otherThanUDP)
    \/ \E i \in 1..Len(sessionList) :
          \/ (ReadPacket(i) /\ UNCHANGED otherThanUDP)
          \/ \E a \in Peers : (WritePacket(i, a) /\ UNCHANGED otherThanUDP)
          \/ \E e \in SessionResults : (SessionStops(i, e) /\ UNCHANGED otherThanUDP)
          \/ (DispatchStopped(i) /\ UNCHANGED otherThanUDP)

\* a loop that can leave a select, or whose socket operation has a deadline
\* that has passed, does so; sendOrDrop never waits; eg.Wait returns.  The
\* write loop, whose select can find mgr.out ready again and again, takes
\* case <-ctx.Done() in the end: select picks among the ready cases at random
FairnessUDPShutdown ==
    /\ WF_vars(ReadCancelled /\ UNCHANGED otherThanUDP)
    /\ WF_vars(ReadDeadlineExceeded /\ UNCHANGED otherThanUDP)
    /\ WF_vars(SendOrDropSend(RunSessionCap) /\ UNCHANGED otherThanUDP)
    /\ WF_vars(SendOrDropEvict /\ UNCHANGED otherThanUDP)
    /\ WF_vars(DispatchCancelled /\ UNCHANGED otherThanUDP)
    /\ WF_vars((WriteToUDP \/ WriteToUDPFails) /\ UNCHANGED otherThanUDP)
    /\ SF_vars(WriteCancelled /\ UNCHANGED otherThanUDP)
    /\ WF_vars(RunReturns /\ UNCHANGED otherThanUDP)

\* one UDP session manager that one peer sends packets to, whose goroutines
\* are scheduled fairly
SpecUDPShutdown == InitUDPSpec /\ [][NextUDPShutdown]_vars /\ FairnessUDPShutdown

InitCapsuleSpec == RunOff /\ FallbackOff /\ DeBufferOff /\ PickOff /\ UDPOff /\ InitCapsule /\ ForwardOff /\ URLsOff /\ ListenerOff /\ SendOrDropRevision /\ AcceptLoopOff

NextCapsule ==
    \/ \E packet \in Payloads : (WriteDatagram(packet) /\ UNCHANGED otherThanCapsule)
    \/ (ReadDatagram /\ UNCHANGED otherThanCapsule)

\* datagrams written to and read from one stream of capsules
SpecCapsule == InitCapsuleSpec /\ [][NextCapsule]_vars

InitForwardSpec == RunOff /\ FallbackOff /\ DeBufferOff /\ PickOff /\ UDPOff /\ CapsuleOff /\ InitForward /\ URLsOff /\ ListenerOff /\ SendOrDropRevision /\ AcceptLoopOff

NextForward ==
    \/ (LocalPacketArrives /\ UNCHANGED otherThanForward)
    \/ (CallerCancels /\ UNCHANGED otherThanForward)
    \/ (RemoteBreaks /\ UNCHANGED otherThanForward)
    \/ (ForwardWaitReturns /\ UNCHANGED otherThanForward)
    \/ \E loop \in AllForwardLoops :
          \/ (LocalReaderTakes(loop) /\ UNCHANGED otherThanForward)
          \/ (LocalReaderCancelled(loop) /\ UNCHANGED otherThanForward)
          \/ (LocalReaderSends(loop) /\ UNCHANGED otherThanForward)
          \/ (RemoteReaderFails(loop) /\ UNCHANGED otherThanForward)
          \/ (RemoteReaderRejects(loop) /\ UNCHANGED otherThanForward)

\* every loop takes the steps it can take, and eg.Wait returns when it can;
\* the local side, the caller and the remote side are free not to act
FairnessForward ==
    /\ \A loop \in AllForwardLoops :
         /\ WF_vars(LocalReaderTakes(loop) /\ UNCHANGED otherThanForward)
         /\ WF_vars(LocalReaderCancelled(loop) /\ UNCHANGED otherThanForward)
         /\ WF_vars(LocalReaderSends(loop) /\ UNCHANGED otherThanForward)
         /\ WF_vars(RemoteReaderFails(loop) /\ UNCHANGED otherThanForward)
    /\ WF_vars(ForwardWaitReturns /\ UNCHANGED otherThanForward)

\* the forwarding phase of one TunnelUDP attempt
SpecForward == InitForwardSpec /\ [][NextForward]_vars /\ FairnessForward

InitURLsSpec == RunOff /\ FallbackOff /\ DeBufferOff /\ PickOff /\ UDPOff /\ CapsuleOff /\ ForwardOff /\ InitURLs /\ ListenerOff /\ SendOrDropRevision /\ AcceptLoopOff

NextURLs == CallParseURLs /\ UNCHANGED otherThanURLs

\* one call of ParseURLs on each pair of strings
SpecURLs == InitURLsSpec /\ [][NextURLs]_vars

InitListenerSpec == RunOff /\ FallbackOff /\ DeBufferOff /\ PickOff /\ UDPOff /\ CapsuleOff /\ ForwardOff /\ URLsOff /\ InitListener /\ SendOrDropRevision /\ AcceptLoopOff

NextListener ==
    \/ (\E ids \in RequestIds(MaxRequestIds), fails \in BOOLEAN, any \in EphemeralAddrs :
            UpdateConnect(ids, fails, any)) /\ UNCHANGED otherThanListener
    \/ (\E ids \in RequestIds(MaxRequestIds), e \in {NilErr, errNotListening} :
            UpdateDisconnect(ids, e)) /\ UNCHANGED otherThanListener
    \/ (\E ids \in RequestIds(MaxRequestIds), e \in {NilErr, errNotListening} :
            Delete(ids, e)) /\ UNCHANGED otherThanListener
    \/ (\E k \in 1..MaxListeners : OnContextCancel(k)) /\ UNCHANGED otherThanListener
    \/ (\E k \in 1..MaxListeners : SessionManagerFails(k)) /\ UNCHANGED otherThanListener

\* the goroutines that close a socket whose context is done are scheduled;
\* nothing obliges a caller to call, or a session manager to fail
FairnessListener ==
    \A k \in 1..MaxListeners : WF_vars(OnContextCancel(k) /\ UNCHANGED otherThanListener)

\* the listener server under its callers
SpecListener == InitListenerSpec /\ [][NextListener]_vars /\ FairnessListener

InitUDPHandOverSpec == RunOff /\ FallbackOff /\ DeBufferOff /\ PickOff /\ InitUDP /\ CapsuleOff /\ ForwardOff /\ URLsOff /\ ListenerOff /\ handOver \in HandOvers /\ AcceptLoopOff

NextUDPHandOver ==
    \/ (PacketArrives(MaxHandOverPackets, Peers) /\ UNCHANGED otherThanUDP)
    \/ (ReadFromUDP /\ UNCHANGED otherThanUDP)
    \/ (ReadSends /\ UNCHANGED otherThanUDP)
    \/ (DispatchPacket /\ UNCHANGED otherThanUDP)
    \/ (SendOrDropRevision /\ SendOrDropSend(RunSessionCap) /\ UNCHANGED otherThanUDP)
    \/ (SendOrDropRevision /\ SendOrDropEvict /\ UNCHANGED otherThanUDP)
    \/ (~SendOrDropRevision /\ HandlePacketSends(HandOverCap) /\ UNCHANGED otherThanUDP)
    \/ (~SendOrDropRevision /\ HandlePacketSessionDone /\ UNCHANGED otherThanUDP)
    \/ \E i \in 1..Len(sessionList) :
          \/ (ReadPacket(i) /\ UNCHANGED otherThanUDP)
          \/ \E e \in SessionResults : (SessionStops(i, e) /\ UNCHANGED otherThanUDP)
          \/ (SendOrDropRevision /\ DispatchStopped(i) /\ UNCHANGED otherThanUDP)
          \/ (~SendOrDropRevision /\ DispatchStoppedDeletes(i) /\ UNCHANGED otherThanUDP)

\* the dispatch loop goes on when it can: sendOrDrop and HandlePacket take a
\* case that is ready, and the select of the loop, which picks among its ready
\* cases at random, takes case s := <-stopped in the end; a handler with a
\* packet waiting reads it or returns
FairnessUDPHandOver ==
    /\ WF_vars(HandOver /\ UNCHANGED otherThanUDP)
    /\ \A i \in 1..MaxSessions : SF_vars(Reclaim(i) /\ UNCHANGED otherThanUDP)
    /\ \A i \in 1..MaxSessions : WF_vars(HandlerMoves(i) /\ UNCHANGED otherThanUDP)

\* the inbound side of one UDP session manager whose context stays live, in
\* either revision of dispatch, with the dispatch loop and the handlers
\* scheduled fairly
SpecUDPHandOver == InitUDPHandOverSpec /\ [][NextUDPHandOver]_vars /\ FairnessUDPHandOver

InitAcceptLoopSpec == RunOff /\ FallbackOff /\ DeBufferOff /\ PickOff /\ UDPOff /\ CapsuleOff /\ ForwardOff /\ URLsOff /\ ListenerOff /\ SendOrDropRevision /\ InitAcceptLoop

NextAcceptLoop ==
    \/ \E res \in AcceptResults : (AcceptReturns(res) /\ UNCHANGED otherThanAcceptLoop)
    \/ (BackoffElapses /\ UNCHANGED otherThanAcceptLoop)
    \/ (BackoffCancelled /\ UNCHANGED otherThanAcceptLoop)
    \/ (AcceptContextCancelled /\ UNCHANGED otherThanAcceptLoop)
    \/ \E i \in 1..Len(alTasks) :
          \/ (TaskRuns(i) /\ UNCHANGED otherThanAcceptLoop)
          \/ (TaskEnds(i) /\ UNCHANGED otherThanAcceptLoop)

\* one accept loop of the listener server and its serving tasks
SpecAcceptLoop == InitAcceptLoopSpec /\ [][NextAcceptLoop]_vars

(***************************************************************************)
(* Helpers of the properties.                                              *)
(***************************************************************************)
Sentinels == {"unavailable", "unauthenticated", "unauthorized", "unsupported"}

\* a generic transport error: an error of none of the four sentinel kinds
IsGeneric(e) == e # NilErr /\ e.is \cap Sentinels = {}

\* the handler has been invoked and every invocation returned unauthenticated
AlwaysUnauthenticated ==
    /\ Len(handlerErrs) >= 1
    /\ \A i \in 1..Len(handlerErrs) : ErrorsIs(handlerErrs[i], "unauthenticated")

LastHandlerErr == handlerErrs[Len(handlerErrs)]

\* the tunneler of the current attempt has returned
TunnelReturned == tunnelPC \in {"returned", "idle"} /\ tunnelEnd # "<none>"

\* the attempt failed to dial or to reach the proxy
ReachFailure == TunnelReturned /\ tunnelEnd \in {"dial:fail", "send", "recv"}

(***************************************************************************)
(* Properties of the orchestrator and of the tunnelers, under Spec.        *)
(***************************************************************************)

\* C1 as stated: when every handler invocation returned unauthenticated, the
\* finished run invoked the handler exactly twice and GetJWT exactly once and
\* returned an error.
C1_TwoInvocationsAsStated ==
    (runPC = "done" /\ AlwaysUnauthenticated)
        => (Len(handlerErrs) = 2 /\ loginCalls = 1 /\ result # NilErr)

\* C1 as amended: the handler is never invoked a third time and GetJWT never a
\* second time; a finished run whose every handler invocation returned
\* unauthenticated called GetJWT exactly once and returned an error, and it
\* invoked the handler exactly twice when the login and the store of the new
\* token succeeded, and once when either failed.
C1_AuthRetryBound ==
    /\ Len(handlerTokens) <= 2
    /\ loginCalls <= 1
    /\ (runPC = "done" /\ AlwaysUnauthenticated)
          => /\ loginCalls = 1
             /\ result # NilErr
             /\ IF Len(storedJWTs) = 1 /\ storedJWTs[1].ok
                THEN Len(handlerErrs) = 2 /\ returnedAt = "finish"
                ELSE Len(handlerErrs) = 1 /\ returnedAt \in {"login", "store"}

C1_Witness ==
    /\ runPC = "done"
    /\ Len(handlerErrs) = 2
    /\ AlwaysUnauthenticated
    /\ loginCalls = 1
    /\ ErrorsIs(result, "unauthenticated")

\* C2: when the last handler invocation ended with a generic transport error,
\* runWithJWT called DeleteJWT exactly once, with the key proxyHost|tlsEnabled;
\* when it ended with unavailable or unauthorized, DeleteJWT was never called
\* and the cache holds what it held when that invocation started.
C2_CacheInvalidation ==
    returnedAt = "finish" =>
        /\ IsGeneric(LastHandlerErr) =>
              deletedKeys = << proxyHost \o "|" \o (IF tlsEnabled THEN "true" ELSE "false") >>
        /\ (ErrorsIs(LastHandlerErr, "unavailable")
              \/ ErrorsIs(LastHandlerErr, "unauthorized"))
              => (deletedKeys = <<>> /\ entries = entriesAtCall)

C2_Witness ==
    /\ returnedAt = "finish"
    /\ IsGeneric(LastHandlerErr)
    /\ Len(deletedKeys) = 1
    /\ entriesAtCall[jwtCacheKey] # Absent
    /\ entries[jwtCacheKey] = Absent

\* C3 as stated: when the cache load reported not-found, expired or invalid,
\* the run goes on and the first handler invocation receives the empty token.
C3_EmptyTokenAfterCacheError ==
    (ErrorsIs(loadErr, "not found") \/ ErrorsIs(loadErr, "expired")
        \/ ErrorsIs(loadErr, "invalid"))
        => /\ returnedAt # "load"
           /\ Len(handlerTokens) >= 1 => handlerTokens[1] = NoJWT

C8_ForbiddenIsUnauthorized ==
    (proto \in {"http2", "http3"} /\ statusCode = StatusForbidden /\ TunnelReturned)
        => /\ attemptErr = httpStatusCodeToError(statusCode)
           /\ ErrorsIs(attemptErr, "unauthorized")
           /\ returnedAt = "finish" => deletedKeys = <<>>

\* C9 as stated: for every tunneler a failure to dial or reach the proxy is a
\* generic error, never unsupported, and the orchestrator deletes the cached
\* token.
C9_ReachFailureIsGenericAsStated ==
    (proto \in Protos /\ ReachFailure)
        => /\ IsGeneric(attemptErr)
           /\ returnedAt = "finish" => deletedKeys = <<jwtCacheKey>>

\* C9 as amended: a failure to dial or reach the proxy is a generic error,
\* never unsupported, for the HTTP/1.1 and HTTP/2 tunnelers and for the HTTP/3
\* UDP tunneler; the HTTP/3 TCP tunneler reports it as unsupported; in both
\* cases the orchestrator that gets the error deletes the cached token.
C9_ReachFailure ==
    (proto \in Protos /\ ReachFailure)
        => /\ IF proto = "http3" /\ mode = "tcp"
              THEN ErrorsIs(attemptErr, "unsupported")
              ELSE IsGeneric(attemptErr)
           /\ returnedAt = "finish" => deletedKeys = <<jwtCacheKey>>

C9_Witness ==
    /\ proto = "http2"
    /\ tunnelEnd = "dial:fail"
    /\ returnedAt = "finish"
    /\ IsGeneric(result)
    /\ entriesAtCall[jwtCacheKey] # Absent
    /\ entries[jwtCacheKey] = Absent

\* C10: within one attempt nothing is forwarded in either direction unless the
\* response status has been read and is 200.
C10_HandshakeBeforeData ==
    (toRemote > 0 \/ toLocal > 0) => statusCode = StatusOK

C10_Witness ==
    /\ statusCode = StatusOK
    /\ toRemote > 0
    /\ toLocal > 0

(***************************************************************************)
(* Properties of the fallback tunneler, under SpecFallback.                *)
(***************************************************************************)
\* the entries of a list that have not been removed, in list order
Live(list) == SelectSeq(list, LAMBDA t : t # NilTunneler)

\* the invocations of tunneler t over all calls, as <<call, position>> pairs
InvocationsOf(t) ==
    { kj \in UNION { {<<k, j>> : j \in 1..Len(fbCalls[k].invoked)} : k \in 1..Len(fbCalls) } :
        fbCalls[kj[1]].invoked[kj[2]] = t }

\* what the invocations of tunneler t have returned so far
ResultsOf(t) ==
    { fbCalls[kj[1]].results[kj[2]] :
        kj \in { x \in InvocationsOf(t) : x[2] <= Len(fbCalls[x[1]].results) } }

\* the fallback tunneler wraps [A, B], and A has returned unsupported each time
WrapsABWithAUnsupported ==
    /\ Len(fbCalls) >= 1
    /\ fbCalls[1].before = <<1, 2>>
    /\ \A e \in ResultsOf(1) : ErrorsIs(e, "unsupported")

\* the first call tried A and returned what B returned, every later call
\* invoked B alone, and A was invoked at most once
ReturnsWhatBReturns ==
    /\ Cardinality(InvocationsOf(1)) <= 1
    /\ \A k \in 1..Len(fbCalls) :
         fbCalls[k].returned =>
            IF k = 1
            THEN /\ fbCalls[k].invoked = <<1, 2>>
                 /\ fbCalls[k].ret = fbCalls[k].results[2]
            ELSE /\ fbCalls[k].invoked = <<2>>
                 /\ fbCalls[k].ret = fbCalls[k].results[1]

\* C4 as stated: for a fallback tunneler wrapping [A, B] where A always
\* returns unsupported, the first call returns exactly what B returns, every
\* later call invokes B directly, and A is invoked at most once.
C4_FallbackToBAsStated == WrapsABWithAUnsupported => ReturnsWhatBReturns

\* C4 as amended: the same, for a B that does not return unsupported.
C4_FallbackToB ==
    (WrapsABWithAUnsupported /\ \A e \in ResultsOf(2) : ~ErrorsIs(e, "unsupported"))
        => ReturnsWhatBReturns

C4_Witness ==
    /\ Len(fbCalls) >= 2
    /\ fbCalls[1].before = <<1, 2>>
    /\ fbCalls[1].returned /\ fbCalls[1].invoked = <<1, 2>>
    /\ fbCalls[2].returned /\ fbCalls[2].invoked = <<2>>
    /\ fbCalls[1].ret = errIO
    /\ fbCalls[2].ret = NilErr
    /\ Cardinality(InvocationsOf(1)) = 1

\* C5: when the first tunneler of the list that has not been removed returns
\* success or an error other than unsupported, the call returns that result,
\* invokes no other tunneler and leaves the list as it was, and the next call
\* tries the same tunneler first.
C5_OtherResultsReturnedAsIs ==
    \A k \in 1..Len(fbCalls) :
        (Len(fbCalls[k].results) >= 1 /\ ~ErrorsIs(fbCalls[k].results[1], "unsupported"))
            => /\ fbCalls[k].returned
               /\ fbCalls[k].ret = fbCalls[k].results[1]
               /\ fbCalls[k].invoked = <<Head(Live(fbCalls[k].before))>>
               /\ k = Len(fbCalls) => tunnelers = fbCalls[k].before
               /\ k < Len(fbCalls) =>
                     /\ fbCalls[k + 1].before = fbCalls[k].before
                     /\ fbCalls[k + 1].invoked # <<>> =>
                           fbCalls[k + 1].invoked[1] = fbCalls[k].invoked[1]

C5_Witness ==
    /\ Len(fbCalls) = 3
    /\ fbCalls[2].before = <<NilTunneler, 2, 3>>
    /\ fbCalls[2].returned
    /\ fbCalls[2].invoked = <<2>>
    /\ fbCalls[2].ret = errUnauthenticated
    /\ fbCalls[3].invoked = <<2>>
    /\ tunnelers = <<NilTunneler, 2, 3>>

\* C6: a call in which every tunneler returns unsupported (or that finds no
\* tunneler) invokes each tunneler left in the list once, in list order, and
\* fails with the unsupported error "no tunnelers defined"; every later call
\* invokes no tunneler and fails the same way.
C6_ExhaustedListIsUnsupported ==
    \A k \in 1..Len(fbCalls) :
        (/\ fbCalls[k].returned
         /\ \A j \in 1..Len(fbCalls[k].results) :
               ErrorsIs(fbCalls[k].results[j], "unsupported"))
            => /\ fbCalls[k].invoked = Live(fbCalls[k].before)
               /\ Len(fbCalls[k].results) = Len(fbCalls[k].invoked)
               /\ ErrorsIs(fbCalls[k].ret, "unsupported")
               /\ fbCalls[k].ret.msg = "unsupported: no tunnelers defined"
               /\ \A l \in (k + 1)..Len(fbCalls) :
                     /\ fbCalls[l].invoked = <<>>
                     /\ fbCalls[l].returned => fbCalls[l].ret = fbCalls[k].ret

C6_Witness ==
    /\ Len(fbCalls) >= 2
    /\ fbCalls[1].before = <<1, 2, 3>>
    /\ fbCalls[1].returned
    /\ fbCalls[1].invoked = <<1, 2, 3>>
    /\ fbCalls[2].returned
    /\ fbCalls[2].invoked = <<>>
    /\ ErrorsIs(fbCalls[2].ret, "unsupported")

(***************************************************************************)
(* Properties of the data plane of the TCP tunnelers, under Spec.          *)
(***************************************************************************)
\* TunnelTCP has left its select and returned
PumpEnded == mode = "tcp" /\ tunnelEnd \in {"pump:eof", "pump:fail", "pump:ctx"}

\* the select took the cancellation and no copy direction had failed
CleanCancellation ==
    /\ PumpEnded
    /\ tunnelEnd = "pump:ctx"
    /\ \A i \in 1..Len(errc) : errc[i] = NilErr

\* C11 as stated: when a connected TCP tunnel ends on the cancellation of its
\* context and no copy direction has failed, OnDisconnected is emitted with a
\* nil error.
C11_CleanCancelIsNilAsStated ==
    CleanCancellation
        => /\ events[Len(events)] = "OnDisconnected"
           /\ disconnectErr = NilErr

\* C11 as amended: in that case OnDisconnected is emitted with the cause of the
\* cancellation, which is not nil, and the tunneler returns the same error.
C11_CleanCancelIsCause ==
    CleanCancellation
        => /\ events[Len(events)] = "OnDisconnected"
           /\ disconnectErr = errCanceled
           /\ disconnectErr # NilErr
           /\ attemptErr = disconnectErr

C11_Witness ==
    /\ CleanCancellation
    /\ proto = "http3"
    /\ errc = <<>>
    /\ ctxDone
    /\ events = <<"OnConnecting", "OnConnected", "OnDisconnected">>
    /\ ErrorsIs(disconnectErr, "context canceled")

\* C12: after a successful handshake TunnelTCP returns only once a copy
\* direction has finished or the context is cancelled; what it returns is the
\* result of the direction that finished first or the cause of the
\* cancellation, never the result of the second direction; and it can return
\* as soon as one of the two has happened, without waiting for the other copy.
C12_ReturnsOnFirstEvent ==
    /\ PumpEnded =>
          /\ errc # <<>> \/ ctxDone
          /\ IF tunnelEnd = "pump:ctx"
             THEN ctxDone /\ attemptErr = errCanceled
             ELSE errc # <<>> /\ attemptErr = errc[1]
    /\ (mode = "tcp" /\ runPC = "handler" /\ tunnelPC = "pump") =>
          (ENABLED Disconnect <=> (errc # <<>> \/ ctxDone))

C12_Witness ==
    /\ PumpEnded
    /\ tunnelEnd = "pump:fail"
    /\ ~ctxDone
    /\ copyEnded = {"remote->local"}
    /\ toRemote > 0
    /\ attemptErr = errIO

\* C13: without a TLS configuration the HTTP/2 and HTTP/3 tunnelers fail with
\* an error of the unsupported kind before they dial the proxy or send
\* anything; the HTTP/2 tunneler also fails with unsupported when the TLS
\* handshake negotiated a protocol other than h2.
C13_UnmetPrerequisiteIsUnsupported ==
    /\ (proto \in {"http2", "http3"} /\ ~tlsEnabled
            /\ Len(handlerTokens) >= 1 /\ tunnelPC # "dial")
          => /\ tunnelEnd = "prereq"
             /\ ErrorsIs(attemptErr, "unsupported")
             /\ dials = 0
             /\ authorization = "<none>"
             /\ events = <<"OnConnecting">>
    /\ tunnelEnd = "dial:alpn"
          => /\ proto = "http2"
             /\ tlsEnabled
             /\ ErrorsIs(attemptErr, "unsupported")

C13_Witness ==
    /\ proto = "http3"
    /\ ~tlsEnabled
    /\ tunnelEnd = "prereq"
    /\ dials = 0
    /\ returnedAt = "finish"
    /\ ErrorsIs(result, "unsupported")

(***************************************************************************)
(* Properties of deBuffer, under SpecDeBuffer.                             *)
(***************************************************************************)
\* the bytes remoteReader has yet to return, in the order it returns them
StillToDeliver ==
    (IF dbReader.multi THEN SubSeq(dbBuf, 1, dbReader.limit) ELSE <<>>)
        \o dbSocket \o dbInflight

\* C14: in the HTTP/1.1 TCP tunneler the bytes buffered past the end of the
\* response are delivered to the local stream first and the bytes read later
\* from the socket after them, so that what the local side has received,
\* followed by what the reader has yet to return, is always the byte sequence
\* the proxy sent: no byte is lost, duplicated or reordered.
C14_DeBufferKeepsTheStream ==
    dbPC = "copy" =>
        /\ dbLocal \o StillToDeliver = dbPayload
        /\ dbReader.multi => dbReader.limit = Len(dbBuf)
        /\ Len(dbLocal) < dbBuffered => dbReader.limit = dbBuffered - Len(dbLocal)

C14_Witness ==
    /\ dbPC = "copy"
    /\ Len(dbPayload) = MaxPayload
    /\ dbBuffered = 2
    /\ dbReader.multi
    /\ dbLocal = dbPayload

(***************************************************************************)
(* Properties of the selection of the tunneler, under SpecPick.            *)
(***************************************************************************)
\* the Alt-Svc values of the model that advertise h3
AdvertisesH3 ==
    { <<"h", "3", "=", ":", "4", "4", "3">>,
      <<"h", "2", ",", "h", "3", "-", "2", "9">> }

\* C15: pickTCPTunneler returns the HTTP/1.1 tunneler without a probe when
\* there is no TLS configuration, and the HTTP/1.1 tunneler when the probe
\* fails; after a successful probe it returns HTTP/3 when Alt-Svc contains h3,
\* whatever the protocol of the probe, else HTTP/2 when the major version of
\* the response is 2, else HTTP/1.1.
C15_PickTCPTunneler ==
    \A i \in 1..Len(probes) :
        probes[i].kind = "tcp" =>
            /\ ~probes[i].tls =>
                  (probes[i].picked = "http1" /\ ~probes[i].issued)
            /\ (probes[i].tls /\ probes[i].outcome.kind # "ok") =>
                  probes[i].picked = "http1"
            /\ (probes[i].tls /\ probes[i].outcome.kind = "ok") =>
                  probes[i].picked =
                      IF probes[i].outcome.altSvc \in AdvertisesH3 THEN "http3"
                      ELSE IF probes[i].outcome.protoMajor = 2 THEN "http2"
                      ELSE "http1"
            /\ tcpTunneler = probes[i].picked

C15_Witness ==
    \E i \in 1..Len(probes) :
        /\ probes[i].kind = "tcp"
        /\ probes[i].outcome.kind = "ok"
        /\ probes[i].outcome.protoMajor = 2
        /\ probes[i].outcome.altSvc = <<"h", "2", ",", "h", "3", "-", "2", "9">>
        /\ probes[i].picked = "http3"
        /\ \E j \in 1..Len(used) : used[j].tunneler = "http3" /\ used[j].kind = "tcp"

\* C16 as stated: on one Tunnel the selection is computed at most once, no
\* second probe is made, and every tunnel attempt (Run calls, the retry after
\* a login, UDP sessions) uses the same tunneler.
C16_SelectedOnce ==
    /\ Cardinality({ i \in 1..Len(probes) : probes[i].issued }) <= 1
    /\ \A i, j \in 1..Len(used) : used[i].tunneler = used[j].tunneler

(***************************************************************************)
(* The UDP session manager: properties.                                    *)
(***************************************************************************)
\* the packets in a sequence of packets
PacketsOf(queue) == {queue[k] : k \in 1..Len(queue)}

\* the packets a session has been given: queued, delivered or dropped
GivenTo(i) ==
    PacketsOf(sessionList[i].in) \cup PacketsOf(sessionList[i].delivered)
        \cup PacketsOf(sessionList[i].pushed)

\* sendOrDrop is handing a packet to session i
SendingTo(i) == dispatchPC \in {"send", "evict"} /\ dispatchTo = i

\* C17: whatever the interleaving of the packets of two peers on the socket,
\* the two peers have two separate sessions in the map, and every packet put
\* on the inbound queue of a session, or returned by its ReadPacket, has the
\* peer address of the session as its source
C17_NoCrossDelivery ==
    /\ \A a, b \in Peers :
         (a # b /\ sessions[a] # NoSession /\ sessions[b] # NoSession)
             => sessions[a] # sessions[b]
    /\ \A a \in Peers :
         sessions[a] # NoSession => sessionList[sessions[a]].addr = a
    /\ \A i \in 1..Len(sessionList) :
         /\ \A packet \in GivenTo(i) : packet.addr = sessionList[i].addr
         /\ SendingTo(i) => dispatchPacket.addr = sessionList[i].addr

\* the packets of two peers alternate on the socket, both peers have a
\* session in the map, and both sessions have read a packet
C17_Witness ==
    /\ Len(udpReceived) >= 3
    /\ udpReceived[1].addr # udpReceived[2].addr
    /\ udpReceived[3].addr = udpReceived[1].addr
    /\ \A a \in Peers :
         /\ sessions[a] # NoSession
         /\ sessionList[sessions[a]].delivered # <<>>
    /\ \E a \in Peers : Len(sessionList[sessions[a]].delivered) = 2

\* nobody has read from the inbound queue of session i, the queue has not
\* been emptied by the dispatch loop, and no sendOrDrop on it is under way
FloodedUnread(i) ==
    /\ sessionList[i].delivered = <<>>
    /\ sessionList[i].state # "removed"
    /\ ~SendingTo(i)

\* C18: when N+k packets have been pushed with sendOrDrop into the inbound
\* queue, of capacity N, of a session nobody is reading, exactly k packets
\* are counted as dropped and exactly N remain to be delivered, in the order
\* they were pushed; while at most N have been pushed none is dropped
C18_FloodDropsExactlyTheExcess ==
    \A i \in 1..Len(sessionList) :
        FloodedUnread(i) =>
            LET pushed == Len(sessionList[i].pushed)
                kept == Min(pushed, SessionCap)
            IN  /\ sessionList[i].dropped = pushed - kept
                /\ Len(sessionList[i].in) = kept
                /\ sessionList[i].in =
                       SubSeq(sessionList[i].pushed, pushed - kept + 1, pushed)

\* a session nobody reads has been pushed two packets more than its queue holds
C18_Witness ==
    \E i \in 1..Len(sessionList) :
        /\ FloodedUnread(i)
        /\ Len(sessionList[i].pushed) = SessionCap + 2
        /\ sessionList[i].dropped = 2
        /\ Len(sessionList[i].in) = SessionCap

\* the packets of a sequence are in the order the socket received them
InReceiptOrder(queue) ==
    \A k, l \in 1..Len(queue) : k < l => queue[k].id < queue[l].id

\* the packets of a sequence that come from one peer, in the order of the sequence
RECURSIVE FromPeer(_, _)
FromPeer(queue, a) ==
    IF queue = <<>> THEN <<>>
    ELSE IF Head(queue).addr = a
         THEN <<Head(queue)>> \o FromPeer(Tail(queue), a)
         ELSE FromPeer(Tail(queue), a)

\* the packets of the peer of session i on their way to its ReadPacket, the
\* nearest first: the inbound queue, the packet sendOrDrop holds, mgr.in, the
\* packet the read loop holds, and the socket
OnTheWayTo(i) ==
    sessionList[i].in
        \o (IF SendingTo(i) THEN <<dispatchPacket>> ELSE <<>>)
        \o FromPeer(mgrIn, sessionList[i].addr)
        \o (IF readPacket.addr = sessionList[i].addr THEN <<readPacket>> ELSE <<>>)
        \o FromPeer(udpSocket, sessionList[i].addr)

\* C19: the packets ReadPacket of a session has returned are in the order the
\* socket received them, and so are the packets of its peer still on the way
\* behind them: packets are dropped on the way, never reordered
C19_ReceiptOrderPerPeer ==
    \A i \in 1..Len(sessionList) :
        /\ InReceiptOrder(sessionList[i].delivered)
        /\ sessions[sessionList[i].addr] = i
               => InReceiptOrder(sessionList[i].delivered \o OnTheWayTo(i))
        /\ \A j \in 1..Len(sessionList) :
               (i < j /\ sessionList[i].addr = sessionList[j].addr)
                   => InReceiptOrder(sessionList[i].delivered \o sessionList[j].delivered)

\* ReadPacket of a session has returned two packets, with a packet of the
\* other peer received between them, and a packet of its own peer was dropped
C19_Witness ==
    \E i \in 1..Len(sessionList) :
        /\ Len(sessionList[i].delivered) >= 2
        /\ sessionList[i].delivered[2].id > sessionList[i].delivered[1].id + 1
        /\ sessionList[i].dropped >= 1

\* the sessions created and not yet taken out of the map by the dispatch loop
InTheMap(i) == sessionList[i].state # "removed"

\* no two sessions of the map have the same peer address, and the map holds
\* every session whose handler was started and which was not yet removed
OneSessionPerPeer ==
    /\ \A i, j \in 1..Len(sessionList) :
         (InTheMap(i) /\ InTheMap(j) /\ sessionList[i].addr = sessionList[j].addr)
             => i = j
    /\ \A i \in 1..Len(sessionList) :
         InTheMap(i) <=> sessions[sessionList[i].addr] = i

\* a step creates a session only by taking from mgr.in a packet of a peer that
\* has no session in the map, and the session is the one of that peer
CreatedOnFirstPacket ==
    Len(sessionList') # Len(sessionList) =>
        /\ mgrIn # <<>>
        /\ sessions[Head(mgrIn).addr] = NoSession
        /\ Len(sessionList') = Len(sessionList) + 1
        /\ sessionList'[Len(sessionList')].addr = Head(mgrIn).addr
        /\ sessionList'[Len(sessionList')].state = "running"
        /\ sessions'[Head(mgrIn).addr] = Len(sessionList')

\* C20: at every moment the map of the dispatch loop holds at most one
\* session per peer address, and a session, with its handler, is created only
\* when a packet arrives from a peer address that has no session in the map
C20_LazyOneSessionPerPeer == []OneSessionPerPeer /\ [][CreatedOnFirstPacket]_vars

\* a peer whose session was removed got a new one on its next packet, while
\* the other peer has its session too
C20_Witness ==
    \E i, j, k \in 1..Len(sessionList) :
        /\ i < j
        /\ sessionList[i].addr = sessionList[j].addr
        /\ ~InTheMap(i)
        /\ InTheMap(j)
        /\ InTheMap(k)
        /\ sessionList[k].addr # sessionList[j].addr

\* the context given to run is live and no operation of the socket has failed
ManagerUndisturbed == udpCtx = "live" /\ egErr = NilErr

\* the handler of some session returns in this step
SomeHandlerReturns ==
    \E i \in 1..Len(sessionList) :
        /\ sessionList[i].state = "running"
        /\ sessionList'[i].state = "stopped"

\* C21: when the handler of a session returns, with or without an error, the
\* session manager keeps running: the step changes neither the context of the
\* manager nor its loops nor run, and, as long as the caller has not cancelled
\* and the socket has not failed, the three loops run, run has not returned,
\* and every other running session can read a queued packet and write a packet
C21_HandlerReturnLeavesManagerRunning ==
    /\ [][SomeHandlerReturns => UNCHANGED <<udpCtlVars, udpOutVars>>]_vars
    /\ [](ManagerUndisturbed =>
            /\ ~ectxDone
            /\ udpRun = "running"
            /\ \A l \in Loops : Running(l)
            /\ \A j \in 1..Len(sessionList) :
                 sessionList[j].state = "running" =>
                     /\ sessionList[j].in # <<>> => ENABLED ReadPacket(j)
                     /\ Len(mgrOut) < ManagerCap => ENABLED WritePacket(j, sessionList[j].addr))

\* the handler of one session has returned an error and the session was
\* removed; the session of the other peer has read a packet and its reply is
\* with the write loop, and run has not returned
C21_Witness ==
    \E i, j \in 1..Len(sessionList) :
        /\ sessionList[i].state = "removed"
        /\ sessionList[i].result # NilErr
        /\ sessionList[j].state = "running"
        /\ sessionList[j].addr # sessionList[i].addr
        /\ sessionList[j].delivered # <<>>
        /\ writePacket = [addr |-> sessionList[j].addr, id |-> j]
        /\ ManagerUndisturbed
        /\ udpRun = "running"

\* the error of a deadline of the socket
IsDeadlineError(e) == ErrorsIs(e, "i/o timeout")

\* C22: when the context given to the session manager is cancelled, the read,
\* dispatch and write loops all return and run returns; what the loops and run
\* return is the cancellation cause, never the error of a socket deadline
C22_CancelStopsTheManager ==
    /\ [](\A l \in Loops : ~IsDeadlineError(udpLoopErr[l]))
    /\ [](~IsDeadlineError(udpRunErr))
    /\ [](udpRun = "returned" => udpRunErr = udpCause)
    /\ []((udpCause = errCanceled) =>
            /\ \A l \in Loops : ~Running(l) => udpLoopErr[l] = errCanceled
            /\ udpRun = "returned" => udpRunErr = errCanceled)
    /\ (udpCtx = "cancelled") ~> (udpRun = "returned" /\ \A l \in Loops : ~Running(l))

\* the caller cancelled while the read loop was in ReadFromUDP, the dispatch
\* loop had a session and the write loop was idle, and run has returned
C22_Witness ==
    /\ udpCtx = "cancelled"
    /\ udpCause = errCanceled
    /\ udpRun = "returned"
    /\ udpRunErr = errCanceled
    /\ sessionList # <<>>
    /\ \A l \in Loops : udpLoopErr[l] = errCanceled

(***************************************************************************)
(* The capsule codec: properties.                                          *)
(***************************************************************************)
\* sequence a is the beginning of sequence b
IsPrefix(a, b) == Len(a) <= Len(b) /\ a = SubSeq(b, 1, Len(a))

SomeLoopFailed == fwEgErr # NilErr

\* every loop has returned, TunnelUDP has returned the error, and
\* OnDisconnected was emitted once, with it
AttemptEnded ==
    /\ \A l \in ForwardLoops(fwProto) : fwLoop[l] = "returned"
    /\ fwPC = "returned"
    /\ fwResult = fwEgErr
    /\ fwDisconnected = <<fwEgErr>>

\* C24: in a UDP tunneler, HTTP/1.1 or HTTP/3, once the handshake has
\* succeeded an error in any one forwarding loop ends the whole attempt:
\* every other loop stops, TunnelUDP returns the error and OnDisconnected is
\* emitted exactly once, with no need of a further local packet or of the
\* cancellation of the caller's context
C24_LoopErrorEndsAttempt ==
    /\ [](Len(fwDisconnected) <= 1)
    /\ SomeLoopFailed ~> AttemptEnded

\* the ParseURLs call has returned
ParseURLsDone == urlPC = "done"

\* the host of a host:port string as it is written, brackets included
WrittenHost(hostport) == SubSeq(hostport, 1, Len(hostport) - 2)

\* C25: for every well-formed host:port destination given without an explicit
\* proxy string, ParseURLs succeeds, destinationAddr is host:port, and the
\* proxy URL has the scheme https and the Host host:443.
C25_HostPortGivesHTTPS443 ==
    (ParseURLsDone /\ urlDestination \in HostPortDestinations /\ urlPomerium = <<>>)
        => /\ urlResult.err = NilErr
           /\ urlResult.destinationAddr = urlDestination
           /\ ~urlResult.proxyURL.isNil
           /\ urlResult.proxyURL.scheme = <<"https">>
           /\ urlResult.proxyURL.host = WrittenHost(urlDestination) \o <<":", "443">>

\* the same for the hosts that hold no colon: names and IPv4 addresses
HostPortOfNamesGivesHTTPS443 ==
    (ParseURLsDone /\ urlPomerium = <<>>
        /\ \E h \in HostNames, p \in Ports : urlDestination = h \o <<":">> \o p)
        => /\ urlResult.err = NilErr
           /\ urlResult.destinationAddr = urlDestination
           /\ urlResult.proxyURL = URL(<<"https">>, WrittenHost(urlDestination) \o <<":", "443">>, <<>>)

C27_ErrorMeansZeroOutputs ==
    ParseURLsDone
        => /\ urlResult.err # NilErr
               => urlResult.destinationAddr = <<>> /\ urlResult.proxyURL = NilURL
           /\ urlDestination = <<>> => urlResult.err # NilErr
           /\ (urlPomerium # <<>> /\ Hostname(urlParse(urlPomerium).host) = <<>>)
               => urlResult.err # NilErr

\* a destination ParseURLs accepts was given with a proxy string that has no
\* host, and the call failed
C27_Witness ==
    /\ ParseURLsDone
    /\ urlDestination = <<"redis.example.com", ":", "6379">>
    /\ urlPomerium = <<"proxy.example.com", ":", "8443">>
    /\ urlResult.err = errInvalidPomeriumURL

\* a call of Update or Delete is answered in this step
HandlerStep == lsCalls' = lsCalls + 1

\* this step answers a call of the operation op that names id
Answers(op, id) ==
    /\ HandlerStep
    /\ lsResponse'.op = op
    /\ id \in InRequest(lsResponse'.ids)

\* this step opens no socket for id
NoNewSocketFor(id) ==
    \A k \in (Len(lsSockets) + 1)..Len(lsSockets') : lsSockets'[k].id # id

\* a second Update(Connected=true) for id changes nothing and repeats the answer
SecondConnectRepeats(id) ==
    (Answers("connect", id) /\ lsClient[id] # NoAddr)
        => /\ NoNewSocketFor(id)
           /\ lsResponse'.err = NilErr
           /\ lsResponse'.listeners[id] = ListenerStatusOf(TRUE, lsClient[id], NilErr)

\* C28: Update with Connected=true is idempotent: once one Update(Connected=true)
\* has succeeded for a connection id, a second one starts no additional
\* listener and returns Listening=true, the same listen address and no error.
C28_SecondConnectIsIdempotent == [][\A id \in IDs : SecondConnectRepeats(id)]_vars

\* the same for the records whose protocol is TCP
TCPSecondConnectIsIdempotent ==
    [][\A id \in IDs : ProtocolOf(id) = "tcp" => SecondConnectRepeats(id)]_vars

\* Update(Connected=false) for an id the caller was told is listening answers
\* not listening, no address, no error, and the status says the same
DisconnectAnswersNotListening(id) ==
    (Answers("disconnect", id) /\ lsClient[id] # NoAddr)
        => /\ lsResponse'.err = NilErr
           /\ lsResponse'.listeners[id] = ListenerStatusOf(FALSE, NoAddr, NilErr)
           /\ GetListenerStatus(lsStatus', id) = ListenerStatusOf(FALSE, NoAddr, NilErr)

\* socket k exists and the caller has disconnected the id it was opened for
Disconnected(k) == k <= Len(lsSockets) /\ lsClient[lsSockets[k].id] = NoAddr

\* socket k is closed: its address can be bound again
Closed(k) == k <= Len(lsSockets) /\ ~lsSockets[k].open

\* C29: after Update(Connected=false) for a connection id whose listener was
\* started by Update(Connected=true), the status of the id is not listening,
\* with no listen address and no error, and the listener's socket is
\* eventually closed.
C29_DisconnectClosesTheListener ==
    /\ [][\A id \in IDs : DisconnectAnswersNotListening(id)]_vars
    /\ \A k \in 1..MaxListeners : Disconnected(k) ~> Closed(k)

\* the same for the records whose protocol is TCP
TCPDisconnectClosesTheListener ==
    /\ [][\A id \in IDs : ProtocolOf(id) = "tcp" => DisconnectAnswersNotListening(id)]_vars
    /\ \A k \in 1..MaxListeners :
           (Disconnected(k) /\ lsSockets[k].protocol = "tcp") ~> Closed(k)

\* a Delete succeeds and removes every record it selected
DeleteRemoves ==
    (HandlerStep /\ lsResponse'.op = "delete")
        => /\ lsResponse'.err = NilErr
           /\ InRequest(lsResponse'.ids) \cap lsConfig' = {}
           /\ \A id \in InRequest(lsResponse'.ids) : ~lsStatus'[id].listening

\* socket k exists and the record it was opened for has been deleted
Deleted(k) == k <= Len(lsSockets) /\ lsSockets[k].id \notin lsConfig

\* C30: Delete with a selector that matches a record with an active listener
\* and a record with none succeeds: every selected record is removed from the
\* configuration and the active listener is eventually shut down.
C30_DeleteShutsTheListenerDown ==
    /\ [][DeleteRemoves]_vars
    /\ \A k \in 1..MaxListeners : Deleted(k) ~> Closed(k)

\* the same for the records whose protocol is TCP
TCPDeleteShutsTheListenerDown ==
    /\ [][DeleteRemoves]_vars
    /\ \A k \in 1..MaxListeners :
           (Deleted(k) /\ lsSockets[k].protocol = "tcp") ~> Closed(k)

\* a Delete has selected a listening TCP record together with a record that
\* was not listening, and the listener's socket is closed
DeleteOfBothSeen ==
    /\ lsResponse.op = "delete"
    /\ Len(lsResponse.ids) = 2
    /\ \E k \in 1..Len(lsSockets) :
           /\ lsSockets[k].id \in InRequest(lsResponse.ids)
           /\ lsSockets[k].protocol = "tcp"
           /\ ~lsSockets[k].open
    /\ \E id \in InRequest(lsResponse.ids) :
           \A k \in 1..Len(lsSockets) : lsSockets[k].id # id

\* a second Update(Connected=true) for a listening TCP record was answered
\* with its address
SecondConnectSeen ==
    /\ lsResponse.op = "connect"
    /\ \E id \in InRequest(lsResponse.ids) :
           /\ lsStatus[id].listening
           /\ lsResponse.listeners[id].Listening
           /\ Len(lsSockets) = 1
           /\ lsCalls = 2

\* the event sink calls an attempt of a tunneler can have made, in order
EventOrders ==
    {<<"OnConnecting">>, <<"OnConnecting", "OnConnected">>,
     <<"OnConnecting", "OnConnected", "OnDisconnected">>}

\* the number of calls of one event among the event sink calls
EventCount(name) == Cardinality({k \in 1..Len(events) : events[k] = name})

\* a tunneler of this package has been started by the handler
AttemptStarted == proto # "func" /\ handlerTokens # <<>>

\* the current attempt has returned
AttemptReturned == AttemptStarted /\ tunnelPC \in {"returned", "idle"}

\* C31: in every tunneler attempt OnConnecting is the first event; OnConnected
\* is emitted at most once and only after a 200 response; OnDisconnected is
\* emitted exactly once after OnConnected and never without it; an attempt
\* that fails before or during the handshake emits neither of the two.
C31_EventOrder ==
    AttemptStarted
        => /\ events \in EventOrders
           /\ events[1] = "OnConnecting"
           /\ EventCount("OnConnected") <= 1
           /\ EventCount("OnConnected") = 1 => statusCode = StatusOK
           /\ EventCount("OnDisconnected") <= EventCount("OnConnected")
           /\ AttemptReturned
                  => /\ EventCount("OnDisconnected") = EventCount("OnConnected")
                     /\ (statusCode # StatusOK) => events = <<"OnConnecting">>
                     /\ (statusCode = StatusOK)
                            => events = <<"OnConnecting", "OnConnected", "OnDisconnected">>

\* one attempt has failed on the status of the response with OnConnecting
\* alone, and a later attempt of the same run has connected and disconnected
C31_Witness ==
    /\ AttemptReturned
    /\ Len(handlerErrs) >= 1
    /\ ErrorsIs(handlerErrs[1], "unauthenticated")
    /\ Len(handlerTokens) = 2
    /\ events = <<"OnConnecting", "OnConnected", "OnDisconnected">>

\* the handler has been invoked a second time in this run
Retried == Len(handlerTokens) = 2

\* C32: when the first attempt returns unauthenticated and the login succeeds,
\* the token the login returned is stored in the cache under the tunnel's key
\* before the handler is invoked again, and the retry receives exactly that
\* token, not the token loaded at the start of the run.
C32_RetryUsesTheStoredToken ==
    Retried
        => /\ ErrorsIs(handlerErrs[1], "unauthenticated")
           /\ loginCalls = 1
           /\ storedJWTs = <<[key |-> jwtCacheKey, rawJWT |-> FreshJWT, ok |-> TRUE]>>
           /\ entriesAtCall[jwtCacheKey] = FreshJWT
           /\ handlerTokens[2] = FreshJWT
           /\ handlerTokens[2] # handlerTokens[1]
           /\ \A k \in CacheKeys \ {jwtCacheKey} : entriesAtCall[k] = "jwt.noexp"

\* a run that loaded a usable token from the cache was told to authenticate,
\* logged in, and its retry was sent with the token of the login
C32_Witness ==
    /\ Retried
    /\ handlerTokens[1] = "jwt.late"
    /\ handlerTokens[2] = FreshJWT
    /\ proto # "func"
    /\ authorization = "Pomerium " \o FreshJWT

\* the packets of the outbound side: those on mgr.out and the one the write
\* loop has taken and is about to hand to WriteToUDP
OutboundPackets ==
    {mgrOut[k] : k \in 1..Len(mgrOut)} \cup ({writePacket} \ {NoPacket})

\* every outbound packet is addressed to the peer of the session that wrote it
OutboundCarriesSessionAddr ==
    \A packet \in OutboundPackets :
        /\ packet.id \in 1..Len(sessionList)
        /\ packet.addr = sessionList[packet.id].addr

\* the address of a session is the one it was created with
SessionAddrIsFixed ==
    \A i \in 1..Len(sessionList) : sessionList'[i].addr = sessionList[i].addr

\* the write loop sends the packet it took from mgr.out as it took it
WriteKeepsThePacket ==
    (writePacket = NoPacket /\ writePacket' # NoPacket) => writePacket' = Head(mgrOut)

\* C33: every packet a UDP session places on the manager's shared outbound
\* queue carries that session's own peer address, whatever address the
\* tunneler put in the packet, and the session's peer address never changes; a
\* reply is therefore written only to the peer whose session produced it.
C33_RepliesGoToTheSessionsPeer ==
    /\ []OutboundCarriesSessionAddr
    /\ [][SessionAddrIsFixed /\ WriteKeepsThePacket]_vars

\* the sessions of two peers have each written a packet: one is on mgr.out,
\* the other is with the write loop, on its way to WriteToUDP
C33_Witness ==
    /\ writePacket # NoPacket
    /\ mgrOut # <<>>
    /\ sessionList[writePacket.id].addr = "peer.a"
    /\ sessionList[mgrOut[1].id].addr = "peer.b"
    /\ writePacket.addr = "peer.a"
    /\ mgrOut[1].addr = "peer.b"

\* the i-th session created is the one the map holds for its peer
InMap(i) == sessions[sessionList[i].addr] = i

\* a session is in the map from its creation until dispatch has received it on
\* stopped: while it is there no other session of its peer can be created
MapHoldsTheUnreclaimed ==
    \A i \in 1..Len(sessionList) :
        InMap(i) <=> sessionList[i].state \in {"running", "stopped"}

\* an entry leaves the map only by the removal of the stopped session it holds
RemovesTheStoppedSession ==
    \A a \in Peers :
        (sessions[a] # NoSession /\ sessions'[a] # sessions[a])
            => /\ sessions'[a] = NoSession
               /\ sessionList[sessions[a]].addr = a
               /\ sessionList[sessions[a]].state = "stopped"
               /\ sessionList'[sessions[a]].state = "removed"
               /\ \A j \in 1..Len(sessionList) :
                      j # sessions[a] => sessionList'[j].state = sessionList[j].state

\* a packet of a peer with no entry in the map starts a session: a new one,
\* running, with nothing delivered yet, which receives the packet
StartsAFreshSession ==
    \A a \in Peers :
        (sessions[a] = NoSession /\ dispatchPC = "select" /\ dispatchPC' = "send"
            /\ dispatchPacket'.addr = a)
            => /\ sessions'[a] = Len(sessionList) + 1
               /\ Len(sessionList') = Len(sessionList) + 1
               /\ sessionList'[sessions'[a]] = newUDPSession(a)
               /\ dispatchTo' = sessions'[a]

\* the handler of the i-th session has returned and dispatch has not yet
\* received the session on stopped
SessionStopped(i) == i <= Len(sessionList) /\ sessionList[i].state = "stopped"

\* dispatch has received the i-th session on stopped and deleted its entry
SessionReclaimed(i) ==
    i <= Len(sessionList) /\ sessionList[i].state = "removed" /\ ~InMap(i)

HandingOver == dispatchPC \in {"send", "evict"}

\* the inbound queue of the session dispatch is handing a packet to is full
SessionQueueFull ==
    Len(sessionList[dispatchTo].in) >=
        (IF SendOrDropRevision THEN RunSessionCap ELSE HandOverCap)

\* C35: the dispatch loop is never blocked by a session whose inbound queue is
\* full: with dispatch as the only producer and a queue of capacity at least 1,
\* each hand-over of a packet returns without waiting for a consumer.
C35_DispatchNeverWaits ==
    (HandingOver /\ SessionQueueFull) => ENABLED (HandOver /\ UNCHANGED otherThanUDP)

\* tunneler t has returned an error that wraps errUnsupported
ReturnedUnsupported(t) == \E e \in ResultsOf(t) : ErrorsIs(e, "unsupported")

\* the invocations of tunneler t that have returned unsupported or have not
\* returned yet: once t has returned unsupported there is to be only that one
ProbesOf(t) ==
    { kj \in InvocationsOf(t) :
        kj[2] <= Len(fbCalls[kj[1]].results)
            => ErrorsIs(fbCalls[kj[1]].results[kj[2]], "unsupported") }

\* the entries a call has gone past: those before the position of its loop
\* or, once it has returned, those before the entry it returned from
PassedBy(k) ==
    LET c == fbCalls[k].caller IN
    IF fbCalls[k].returned
    THEN IF fbCalls[k].invoked = <<>> \/ ErrorsIs(fbCalls[k].ret, "unsupported")
         THEN 1..Len(fbCalls[k].before)
         ELSE 1..(fbCalls[k].invoked[Len(fbCalls[k].invoked)] - 1)
    ELSE IF fbCall[c] = k THEN 1..(fbIndex[c] - 1) ELSE {}

\* C36: when two calls on the same fallback tunneler overlap in time, a
\* tunneler that returns unsupported is still invoked at most once in total,
\* and no call skips a tunneler that has not returned unsupported.
C36_OverlappingCallsInvokeOnce ==
    /\ \A t \in 1..Len(tunnelers) :
          ReturnedUnsupported(t) => Cardinality(ProbesOf(t)) <= 1
    /\ \A k \in 1..Len(fbCalls) : \A t \in PassedBy(k) :
          (\E j \in 1..Len(fbCalls[k].invoked) : fbCalls[k].invoked[j] = t)
              \/ ReturnedUnsupported(t)

\* the last handler invocation returned an error that is neither unavailable
\* nor unauthorized
LastAttemptFailedOtherwise ==
    /\ handlerErrs # <<>>
    /\ LastHandlerErr # NilErr
    /\ ~ErrorsIs(LastHandlerErr, "unavailable")
    /\ ~ErrorsIs(LastHandlerErr, "unauthorized")

\* C37 as stated: runWithJWT calls DeleteJWT exactly when the last handler
\* invocation returned a non-nil error that is neither unavailable nor
\* unauthorized.
C37_DeletesExactlyAsStated ==
    runPC = "done" => (deletedKeys # <<>> <=> LastAttemptFailedOtherwise)

\* C37 as amended: a run that reaches the final test of runWithJWT (it did not
\* return on a failed load, login or store) calls DeleteJWT, once and with the
\* tunnel's key, exactly when the last handler invocation returned a non-nil
\* error that is neither unavailable nor unauthorized, and a run that returned
\* earlier never calls it; in particular the token just stored by the login is
\* deleted when the retried attempt is again unauthenticated, and the cached
\* token is deleted when a connected tunnel ends with the context's
\* cancellation cause.
C37_DeletesExactlyAtTheFinalTest ==
    /\ Len(deletedKeys) <= 1
    /\ runPC # "done" => deletedKeys = <<>>
    /\ runPC = "done" =>
          /\ deletedKeys # <<>>
                <=> (returnedAt = "finish" /\ LastAttemptFailedOtherwise)
          /\ deletedKeys # <<>> => deletedKeys = <<jwtCacheKey>>
          /\ (returnedAt = "finish" /\ Retried
                /\ ErrorsIs(LastHandlerErr, "unauthenticated"))
                => /\ entriesAtCall[jwtCacheKey] = FreshJWT
                   /\ deletedKeys = <<jwtCacheKey>>
                   /\ entries[jwtCacheKey] \in {Absent, FreshJWT}
                   /\ cacheKind = "memory" => entries[jwtCacheKey] = Absent
          /\ (returnedAt = "finish" /\ proto # "func" /\ tunnelEnd = "pump:ctx")
                => /\ LastHandlerErr = errCanceled
                   /\ statusCode = StatusOK
                   /\ deletedKeys = <<jwtCacheKey>>

\* the login succeeded, its token was stored, the retry was answered with
\* unauthenticated again, and the token of the login was deleted from the cache
C37_Witness ==
    /\ runPC = "done"
    /\ returnedAt = "finish"
    /\ Retried
    /\ proto # "func"
    /\ ErrorsIs(LastHandlerErr, "unauthenticated")
    /\ entriesAtCall[jwtCacheKey] = FreshJWT
    /\ deletedKeys = <<jwtCacheKey>>
    /\ entries[jwtCacheKey] = Absent

\* the cache load failed with an error that is not one of the predefined ones
LoadFailedOtherwise ==
    /\ loadErr # NilErr
    /\ ~ErrorsIs(loadErr, "not found")
    /\ ~ErrorsIs(loadErr, "expired")
    /\ ~ErrorsIs(loadErr, "invalid")

\* C38: if, after an unauthenticated first attempt, the login (GetJWT) fails or
\* storing the new token fails, runWithJWT returns that failure without
\* invoking the handler again and without calling DeleteJWT; a cache load error
\* other than not-found, expired or invalid likewise returns before the handler
\* is ever invoked.
C38_FailuresReturnAtOnce ==
    /\ returnedAt = "login"
          => /\ runPC = "done"
             /\ result = Wrapf("tunnel: failed to get authentication JWT", errIO)
             /\ ErrorsIs(handlerErrs[1], "unauthenticated")
             /\ Len(handlerTokens) = 1 /\ Len(handlerErrs) = 1
             /\ loginCalls = 1
             /\ storedJWTs = <<>>
             /\ deletedKeys = <<>>
             /\ entries = entriesAtCall
    /\ returnedAt = "store"
          => /\ runPC = "done"
             /\ result = Wrapf("tunnel: failed to store JWT", errIO)
             /\ ErrorsIs(handlerErrs[1], "unauthenticated")
             /\ Len(handlerTokens) = 1 /\ Len(handlerErrs) = 1
             /\ loginCalls = 1
             /\ storedJWTs = <<[key |-> jwtCacheKey, rawJWT |-> FreshJWT, ok |-> FALSE]>>
             /\ deletedKeys = <<>>
             /\ entries = entriesAtCall
    /\ (LoadFailedOtherwise /\ runPC # "load")
          => /\ runPC = "done"
             /\ returnedAt = "load"
             /\ result = Wrapf("tunnel: failed to load JWT", loadErr)
             /\ handlerTokens = <<>>
             /\ tunnelPC = "idle" /\ events = <<>>
             /\ loginCalls = 0
             /\ storedJWTs = <<>>
             /\ deletedKeys = <<>>
    /\ returnedAt = "load" => LoadFailedOtherwise

\* a run with a cached token was told to authenticate, the login succeeded and
\* the store of the new token failed: the run is over after one attempt and
\* the cache still holds the old token
C38_Witness ==
    /\ returnedAt = "store"
    /\ handlerTokens = <<"jwt.late">>
    /\ entries[jwtCacheKey] = "jwt.late"
    /\ deletedKeys = <<>>
    /\ result.msg = "tunnel: failed to store JWT: input/output error"

\* C39: the control-plane accept loop starts a serving task only for a
\* connection that Accept returned successfully: when Accept fails with a
\* non-timeout error while the context is still live, no task is started on a
\* missing connection, and whenever the loop exits it has emitted the CLOSED
\* status for its listener.
C39_TasksOnlyForConnections ==
    /\ \A i \in 1..Len(alTasks) : alTasks[i].conn # NilConn
    /\ ~alPanic
    /\ alPC = "returned" => alStatus = <<"LISTENING", "CLOSED">>

====
